---- MODULE Spec2Model ----
(***************************************************************************)
(* State-machine model of the PolynanceSDK client (src/core/client.ts):    *)
(* order execution and tracking, the allowance manager, the pending-order  *)
(* registry and the error classification layer.                            *)
(*                                                                         *)
(* JavaScript strings whose characters matter (toLowerCase, includes) are  *)
(* sequences of one-character strings.  An optional value is a sequence of *)
(* length 0 (undefined) or 1.                                              *)
(***************************************************************************)
EXTENDS Integers, Sequences, FiniteSets, TLC

\* ------------------------------------------------------------------ bounds
\* executeOrder invocations that may be in flight at once on one client
MaxInFlight == 2
\* the registry is explored up to this many entries
MaxPending == 2
\* lists handed out by getPendingOrdersIds that the caller still holds
MaxSnapshots == 2
\* mutations the caller applies to the lists it holds
MaxMutations == 1

\* ----------------------------------------------------------------- strings
None == <<>>

Some(x) == <<x>>

UpperChars == <<"A","B","C","D","E","F","G","H","I","J","K","L","M",
                "N","O","P","Q","R","S","T","U","V","W","X","Y","Z">>

LowerChars == <<"a","b","c","d","e","f","g","h","i","j","k","l","m",
                "n","o","p","q","r","s","t","u","v","w","x","y","z">>

\* String.prototype.toLowerCase, one character
LowerChar(c) ==
    IF \E k \in DOMAIN UpperChars : UpperChars[k] = c
    THEN LowerChars[CHOOSE k \in DOMAIN UpperChars : UpperChars[k] = c]
    ELSE c

\* String.prototype.toLowerCase
ToLowerCase(s) == [k \in DOMAIN s |-> LowerChar(s[k])]

\* String.prototype.toUpperCase, one character
UpperChar(c) ==
    IF \E k \in DOMAIN LowerChars : LowerChars[k] = c
    THEN UpperChars[CHOOSE k \in DOMAIN LowerChars : LowerChars[k] = c]
    ELSE c

\* String.prototype.toUpperCase
ToUpperCase(s) == [k \in DOMAIN s |-> UpperChar(s[k])]

\* String.prototype.includes
Includes(s, sub) ==
    \E k \in 0..(Len(s) - Len(sub)) :
        \A j \in 1..Len(sub) : s[k + j] = sub[j]

StrMatched == <<"m","a","t","c","h","e","d">>

StrTimeout == <<"t","i","m","e","o","u","t">>

\* -------------------------------------------------- error classification
\* PolynanceErrorCode
NETWORK_ERROR == "ERR_NETWORK"

TIMEOUT_ERROR == "ERR_TIMEOUT"

API_REQUEST_FAILED == "ERR_API_REQUEST"

INVALID_PARAMETER == "ERR_INVALID_PARAM"

SERVER_ERROR == "ERR_SERVER"

NOT_FOUND == "ERR_NOT_FOUND"

UNAUTHORIZED == "ERR_UNAUTHORIZED"

FORBIDDEN == "ERR_FORBIDDEN"

RATE_LIMIT_EXCEEDED == "ERR_RATE_LIMIT"

INTERNAL_SDK_ERROR == "ERR_SDK_INTERNAL"

SSE_CONNECTION_FAILED == "ERR_SSE_CONNECT"

SSE_MESSAGE_ERROR == "ERR_SSE_MESSAGE"

SSE_CLOSED == "ERR_SSE_CLOSED"

ENVIRONMENT_ERROR == "ERR_ENVIRONMENT"

\* new Error(message): message is a sequence of string chunks
NewError(message) == [kind |-> "Error", message |-> message]

\* an AxiosError: code, message, optional response {status, data},
\* whether a request object exists, optional config {url, method}; an
\* absent url or method is the empty sequence
NewAxiosError(code, message, response, request, config) ==
    [kind |-> "AxiosError", code |-> code, message |-> message,
     response |-> response, request |-> request, config |-> config]

\* a thrown value that is not an Error; String(value) is its text
NewThrownValue(text) == [kind |-> "Value", text |-> text]

\* `if (options?.statusCode)`: undefined and 0 are falsy
TruthyStatus(statusCode) == statusCode # None /\ statusCode[1] # 0

\* new PolynanceApiError(message, code, options); errorId is the freshly
\* generated identifier
PolynanceApiError(message, code, cause, methodName, statusCode, responseData, context, errorId) ==
    [kind |-> "PolynanceApiError",
     message |-> <<"[", code, "] ">> \o message
                 \o (IF methodName # None
                     THEN <<" (Method: ", methodName[1], ")">> ELSE <<>>)
                 \o (IF TruthyStatus(statusCode)
                     THEN <<" (Status: ", ToString(statusCode[1]), ")">>
                     ELSE <<>>),
     code |-> code,
     originalError |-> cause,
     methodName |-> methodName,
     statusCode |-> statusCode,
     responseData |-> responseData,
     context |-> context,
     errorId |-> errorId]

\* a context is a set of <<key, value>> pairs; {...a, ...b}
Spread(a, b) == {p \in a : \A q \in b : q[1] # p[1]} \cup b

\* the switch on the HTTP status in handleError
StatusToCode(statusCode) ==
    IF statusCode = 400 THEN INVALID_PARAMETER
    ELSE IF statusCode = 401 THEN UNAUTHORIZED
    ELSE IF statusCode = 403 THEN FORBIDDEN
    ELSE IF statusCode = 404 THEN NOT_FOUND
    ELSE IF statusCode = 429 THEN RATE_LIMIT_EXCEEDED
    ELSE IF statusCode \in {500, 501, 502, 503, 504} THEN SERVER_ERROR
    ELSE API_REQUEST_FAILED

\* an axios branch that looks at the response before the timeout condition
HandleAxiosErrorStatusFirst(error, methodName, context, errorId) ==
    LET statusCode == IF error.response # None
                      THEN Some(error.response[1].status) ELSE None
        responseData == IF error.response # None
                        THEN error.response[1].data ELSE None
        errorContext ==
            Spread(context,
                   {<<"url", IF error.config # None
                             THEN error.config[1].url ELSE None>>,
                    <<"requestMethod", IF error.config # None
                             THEN ToUpperCase(error.config[1].method)
                             ELSE None>>})
        isTimeout == \/ error.code = "ECONNABORTED"
                     \/ Includes(ToLowerCase(error.message), StrTimeout)
        code == IF error.response # None THEN StatusToCode(statusCode[1])
                ELSE IF isTimeout THEN TIMEOUT_ERROR
                ELSE IF error.request THEN NETWORK_ERROR
                ELSE API_REQUEST_FAILED
        message ==
            IF error.response # None
            THEN <<"API request failed with status ",
                   ToString(statusCode[1]), ".">>
            ELSE IF isTimeout THEN <<"API request timed out.">>
            ELSE IF error.request
                 THEN <<"Network error: No response received from the API server.">>
            ELSE <<"Failed to setup the API request: ">> \o error.message
    IN  PolynanceApiError(message, code, Some(error), Some(methodName),
                          statusCode, responseData, errorContext, errorId)

\* the branch of handleError for axios errors
HandleAxiosError(error, methodName, context, errorId) ==
    LET statusCode == IF error.response # None
                      THEN Some(error.response[1].status) ELSE None
        responseData == IF error.response # None
                        THEN error.response[1].data ELSE None
        errorContext ==
            Spread(context,
                   {<<"url", IF error.config # None
                             THEN error.config[1].url ELSE None>>,
                    <<"requestMethod", IF error.config # None
                             THEN ToUpperCase(error.config[1].method)
                             ELSE None>>})
        isTimeout == \/ error.code = "ECONNABORTED"
                     \/ Includes(ToLowerCase(error.message), StrTimeout)
        code == IF isTimeout THEN TIMEOUT_ERROR
                ELSE IF error.response # None
                     THEN StatusToCode(statusCode[1])
                ELSE IF error.request THEN NETWORK_ERROR
                ELSE API_REQUEST_FAILED
        message ==
            IF isTimeout THEN <<"API request timed out.">>
            ELSE IF error.response # None
                 THEN <<"API request failed with status ",
                        ToString(statusCode[1]), ".">>
                      \o (IF responseData # None
                             /\ responseData[1].message # None
                          THEN <<" Server message: ">>
                               \o responseData[1].message[1]
                          ELSE IF responseData # None
                                  /\ responseData[1].error # None
                          THEN <<" Server error: ">>
                               \o responseData[1].error[1]
                          ELSE <<>>)
            ELSE IF error.request
                 THEN <<"Network error: No response received from the API server.">>
            ELSE <<"Failed to setup the API request: ">> \o error.message
    IN  PolynanceApiError(message, code, Some(error), Some(methodName),
                          statusCode, responseData, errorContext, errorId)

\* the branch of handleError for every other thrown value
HandleInternalError(error, methodName, context, errorId) ==
    LET originalError == IF error.kind = "Error" THEN error
                         ELSE NewError(error.text)
    IN  PolynanceApiError(
            <<"An unexpected internal SDK error occurred.", " Details: ">>
                \o originalError.message,
            INTERNAL_SDK_ERROR, Some(originalError), Some(methodName),
            None, None, context, errorId)

\* a classifier that wraps again what is already classified
HandleErrorRewrap(error, methodName, context, errorId) ==
    IF error.kind = "AxiosError"
    THEN HandleAxiosError(error, methodName, context, errorId)
    ELSE IF error.kind = "PolynanceApiError"
    THEN PolynanceApiError(error.message, error.code, Some(error),
                           Some(methodName), error.statusCode,
                           error.responseData, context, errorId)
    ELSE HandleInternalError(error, methodName, context, errorId)

\* handleError(error, methodName, context)
handleError(error, methodName, context, errorId) ==
    IF error.kind = "PolynanceApiError" THEN error
    ELSE IF error.kind = "AxiosError"
    THEN HandleAxiosError(error, methodName, context, errorId)
    ELSE HandleInternalError(error, methodName, context, errorId)

\* ------------------------------------------------------------------ state
VARIABLES
    wallet,     \* this.wallet: "none", "Wallet" (no provider attached),
                \* "WalletWithProvider" or "JsonRpcSigner"
    heap,       \* the arrays of the program, by reference; heap[RegistryRef]
                \* is this.pendingOrderIds
    snaps,      \* references getPendingOrdersIds returned, still held
    nMut,       \* caller mutations applied to held lists so far
    calls,      \* the executeOrder invocations, by slot
    waiter,     \* the waitOrderMatched invocation
    creds,      \* this.polymarketClob.creds is set
    build,      \* the buildOrder invocation
    res,        \* the getExchange / getExchangeBySlug invocation
    cls,        \* an error given to handleError, and what came back
    sub         \* the subscribeToTrades call and the subscription it made

vars ==
    <<wallet, heap, snaps, nMut, calls, waiter, creds, build, res, cls, sub>>

\* what order execution and tracking leave alone
builderVars == <<creds, build, res, cls, sub>>

\* what the order builder and the resolvers leave alone
trackingVars == <<heap, snaps, nMut, calls, waiter>>

\* ------------------------------------------------------ external outcomes
Calls == 1..MaxInFlight

\* order ids the backend hands out
OrderIds == {"o1", "o2"}

\* an id the backend has never handed out
UnknownOrderId == "unknown"

\* a value a caller writes into a list it holds
CallerValue == "caller"

\* order statuses the backend reports
Statuses == {<<"m","a","t","c","h","e","d">>,
             <<"M","A","T","C","H","E","D">>,
             <<"M","a","t","c","h","e","d">>,
             <<"l","i","v","e">>,
             <<"U","N","M","A","T","C","H","E","D">>}

\* allowances the quote-token contract reports
AllowanceValues == {0, 1}

\* balances the quote-token contract reports
Balances == {5}

WalletKinds == {"none", "Wallet", "WalletWithProvider", "JsonRpcSigner"}

\* this.wallet?.provider
WalletHasProvider == wallet \in {"WalletWithProvider", "JsonRpcSigner"}

\* the ethers error a failed chain call rejects with
ChainError == NewError(<<"call revert exception">>)

\* the error a failed clob call rejects with
ClobError == NewAxiosError("ERR_BAD_RESPONSE",
                           <<"Request failed with status code 500">>,
                           Some([status |-> 500, data |-> None]), TRUE,
                           Some([url |-> Some("/order"),
                                 method |-> <<"p","o","s","t">>]))

\* reading a property of undefined or null
TypeError == NewError(<<"Cannot read properties of undefined">>)

\* ------------------------------------------------------ allowance manager
\* the four corrective checks of approveAllowanceBalance, in code order
Checks ==
    << [contract |-> "usdc", method |-> "approve",
        spender |-> "negRiskAdapter", arg |-> "MaxUint256"],
       [contract |-> "usdc", method |-> "approve",
        spender |-> "negRiskExchange", arg |-> "MaxUint256"],
       [contract |-> "ctf", method |-> "setApprovalForAll",
        spender |-> "negRiskExchange", arg |-> "true"],
       [contract |-> "ctf", method |-> "setApprovalForAll",
        spender |-> "negRiskAdapter", arg |-> "true"] >>

\* what the five reads resolved to: facts.perm[j] belongs to Checks[j]
FactsSet ==
    [perm : { <<a, b, c, d>> : a \in AllowanceValues, b \in AllowanceValues,
                              c \in BOOLEAN, d \in BOOLEAN },
     balance : Balances]

\* a check that sends a transaction whatever was read
NeedsAlways(facts, j) == TRUE

\* a check that tops an allowance up whenever it is below the balance
NeedsTopUp(facts, j) ==
    IF j \in {1, 2} THEN facts.perm[j] < facts.balance ELSE ~facts.perm[j]

\* the condition of the j-th `if` of approveAllowanceBalance
Needs(facts, j) ==
    IF j \in {1, 2} THEN ~(facts.perm[j] > 0) ELSE ~facts.perm[j]

\* the first check at or after `from` whose condition holds; 5 if none
NextNeeded(facts, from) ==
    IF \E j \in from..4 : Needs(facts, j)
    THEN CHOOSE j \in from..4 :
             Needs(facts, j) /\ \A m \in from..(j - 1) : ~Needs(facts, m)
    ELSE 5

\* walletAddress in approveAllowanceBalance is defined
AddressDefined(provider) ==
    IF provider = "instanceWallet"
    THEN wallet \in {"WalletWithProvider", "JsonRpcSigner"}
    ELSE wallet = "JsonRpcSigner"

\* ------------------------------------------------------- order execution
NoResult == [kind |-> "none", id |-> None, status |-> None, raw |-> None]

NullResult == [kind |-> "null", id |-> None, status |-> None, raw |-> None]

\* args holds the rpcProvider and wallet arguments (given or not) until the
\* allowance reads have settled
IdleCall ==
    [pc |-> "idle", args |-> None,
     provider |-> "none", facts |-> None, k |-> 0, txs |-> <<>>,
     reads |-> 0, allowance |-> "none", nPost |-> 0, nFetch |-> 0,
     nPropose |-> 0, oid |-> None, result |-> NoResult, fail |-> "none",
     caught |-> None]

RegistryRef == 0

\* this.pendingOrderIds
pendingOrderIds == heap[RegistryRef]

InFlight == {i \in Calls : calls[i].pc \notin {"idle", "done"}}

\* a catch block that lets the error escape
ExecuteOrderRethrow(c, e, step, i) ==
    [c EXCEPT !.pc = "done", !.fail = step,
              !.result = [kind |-> "throw", id |-> None, status |-> None,
                          raw |-> None],
              !.caught = Some(handleError(e, "executeOrder",
                                          {<<"order", "order">>}, i))]

\* the catch block of executeOrder
ExecuteOrderCatch(c, e, step, i) ==
    [c EXCEPT !.pc = "done", !.fail = step, !.result = NullResult,
              !.caught = Some(handleError(e, "executeOrder",
                                          {<<"order", "order">>}, i))]

\* a catch block that rethrows what it caught
ApproveAllowanceRethrowRaw(e, i) == e

\* the catch block of approveAllowanceBalance
ApproveAllowanceCatch(e, i) == handleError(e, "approveAllowance", {}, i)

\* an allowance step that returns as soon as one transaction was sent
ApproveAllowanceFirstOnly(c, from) ==
    LET j == IF from = 1 THEN NextNeeded(c.facts[1], from) ELSE 5
    IN  IF j <= 4
        THEN [c EXCEPT !.pc = "tx", !.k = j, !.txs = Append(@, Checks[j])]
        ELSE [c EXCEPT !.pc = "posting", !.k = 0, !.allowance = "returned",
                       !.nPost = @ + 1]

\* approveAllowanceBalance from its j-th check on, up to the next await;
\* when it returns, executeOrder goes on to call postOrder
ApproveAllowanceFrom(c, from) ==
    LET j == NextNeeded(c.facts[1], from)
    IN  IF j <= 4
        THEN [c EXCEPT !.pc = "tx", !.k = j, !.txs = Append(@, Checks[j])]
        ELSE [c EXCEPT !.pc = "posting", !.k = 0, !.allowance = "returned",
                       !.nPost = @ + 1]

\* a start that checks the signer only
ExecStartSignerOnly(i, rpcProvider, walletArg) ==
    /\ calls[i].pc = "idle"
    /\ Len(pendingOrderIds) + Cardinality(InFlight) < MaxPending
    /\ LET c == [IdleCall EXCEPT
                   !.args = Some([rpcProvider |-> rpcProvider,
                                  wallet |-> walletArg])]
       IN  calls' = [calls EXCEPT ![i] =
             IF ~walletArg /\ wallet = "none"
             THEN ExecuteOrderCatch(c,
                      NewError(<<"Wallet is required to approve allowance">>),
                      "config", i)
             ELSE [c EXCEPT !.pc = "reads",
                            !.provider = IF WalletHasProvider
                                         THEN "instanceWallet"
                                         ELSE "rpcProvider"]]
    /\ UNCHANGED <<wallet, heap, snaps, nMut, waiter, builderVars>>

\* a start that prefers the rpcProvider argument to the instance wallet
ExecStartPreferArgument(i, rpcProvider, walletArg) ==
    /\ calls[i].pc = "idle"
    /\ Len(pendingOrderIds) + Cardinality(InFlight) < MaxPending
    /\ LET c == [IdleCall EXCEPT
                   !.args = Some([rpcProvider |-> rpcProvider,
                                  wallet |-> walletArg])]
       IN  calls' = [calls EXCEPT ![i] =
             IF ~walletArg /\ wallet = "none"
             THEN ExecuteOrderCatch(c,
                      NewError(<<"Wallet is required to approve allowance">>),
                      "config", i)
             ELSE IF ~WalletHasProvider /\ ~rpcProvider
             THEN ExecuteOrderCatch(c,
                      NewError(<<"Wallet is required to execute order">>),
                      "config", i)
             ELSE [c EXCEPT !.pc = "reads",
                            !.provider = IF rpcProvider
                                         THEN "rpcProvider"
                                         ELSE "instanceWallet"]]
    /\ UNCHANGED <<wallet, heap, snaps, nMut, waiter, builderVars>>


\* executeOrder(order, orderType, rpcProvider, wallet) up to its first
\* await: the configuration checks, then approveAllowanceBalance issues
\* its five reads
ExecStart(i, rpcProvider, walletArg) ==
    /\ calls[i].pc = "idle"
    /\ Len(pendingOrderIds) + Cardinality(InFlight) < MaxPending
    /\ LET c == [IdleCall EXCEPT
                   !.args = Some([rpcProvider |-> rpcProvider,
                                  wallet |-> walletArg])]
       IN  calls' = [calls EXCEPT ![i] =
             IF ~walletArg /\ wallet = "none"
             THEN ExecuteOrderCatch(c,
                      NewError(<<"Wallet is required to approve allowance">>),
                      "config", i)
             ELSE IF ~WalletHasProvider /\ ~rpcProvider
             THEN ExecuteOrderCatch(c,
                      NewError(<<"Wallet is required to execute order">>),
                      "config", i)
             ELSE [c EXCEPT !.pc = "reads",
                            !.provider = IF WalletHasProvider
                                         THEN "instanceWallet"
                                         ELSE "rpcProvider"]]
    /\ UNCHANGED <<wallet, heap, snaps, nMut, waiter, builderVars>>

\* Promise.all over the five reads rejects: nOk of them resolved
ReadsFail(i, nOk) ==
    /\ calls[i].pc = "reads"
    /\ calls' = [calls EXCEPT ![i] =
          ExecuteOrderCatch([calls[i] EXCEPT !.reads = nOk, !.args = None,
                                             !.allowance = "threw"],
                            ApproveAllowanceCatch(ChainError, i),
                            "reads", i)]
    /\ UNCHANGED <<wallet, heap, snaps, nMut, waiter, builderVars>>

\* Promise.all over the five reads resolves with facts; the checks run up
\* to the first corrective transaction, or to postOrder if none is needed
ReadsOk(i, facts) ==
    /\ calls[i].pc = "reads"
    /\ AddressDefined(calls[i].provider)
    /\ calls' = [calls EXCEPT ![i] =
          ApproveAllowanceFrom([calls[i] EXCEPT !.reads = 5, !.args = None,
                                                !.facts = Some(facts)], 1)]
    /\ UNCHANGED <<wallet, heap, snaps, nMut, waiter, builderVars>>

\* the awaited corrective transaction is sent; the later checks run
TxOk(i) ==
    /\ calls[i].pc = "tx"
    /\ calls' = [calls EXCEPT ![i] =
          ApproveAllowanceFrom(calls[i], calls[i].k + 1)]
    /\ UNCHANGED <<wallet, heap, snaps, nMut, waiter, builderVars>>

\* the awaited corrective transaction rejects
TxFail(i) ==
    /\ calls[i].pc = "tx"
    /\ calls' = [calls EXCEPT ![i] =
          ExecuteOrderCatch([calls[i] EXCEPT !.allowance = "threw",
                                             !.facts = None],
                            ApproveAllowanceCatch(ChainError, i), "tx", i)]
    /\ UNCHANGED <<wallet, heap, snaps, nMut, waiter, builderVars>>

\* a rejected postOrder that is submitted once more
PostFailRetry(i) ==
    /\ calls[i].pc = "posting"
    /\ calls' = [calls EXCEPT ![i] =
          IF calls[i].nPost < 2
          THEN [calls[i] EXCEPT !.nPost = @ + 1]
          ELSE ExecuteOrderCatch([calls[i] EXCEPT !.facts = None,
                                                  !.txs = <<>>],
                                 ClobError, "post", i)]
    /\ UNCHANGED <<wallet, heap, snaps, nMut, waiter, builderVars>>

\* postOrder rejects
PostFail(i) ==
    /\ calls[i].pc = "posting"
    /\ calls' = [calls EXCEPT ![i] =
          ExecuteOrderCatch([calls[i] EXCEPT !.facts = None, !.txs = <<>>],
                            ClobError, "post", i)]
    /\ UNCHANGED <<wallet, heap, snaps, nMut, waiter, builderVars>>

\* postOrder resolves with an orderID: getOrder is called
PostOkWithId(i, orderID) ==
    /\ calls[i].pc = "posting"
    /\ calls' = [calls EXCEPT ![i] =
          [calls[i] EXCEPT !.pc = "fetching", !.oid = Some(orderID),
                           !.nFetch = @ + 1, !.facts = None, !.txs = <<>>]]
    /\ UNCHANGED <<wallet, heap, snaps, nMut, waiter, builderVars>>

\* what postOrder resolves with when it carries no usable orderID: the
\* field is missing, or it is the empty string
NoIdResponses ==
    {[success |-> FALSE, orderID |-> None],
     [success |-> FALSE, orderID |-> Some(<<>>)]}

\* a submission without orderID answered with null and without a proposal
PostOkNoIdNull(i, response) ==
    /\ calls[i].pc = "posting"
    /\ calls' = [calls EXCEPT ![i] =
          [calls[i] EXCEPT !.pc = "done",
                           !.facts = None, !.txs = <<>>,
                           !.result = [kind |-> "null", id |-> None,
                                       status |-> None, raw |-> None]]]
    /\ UNCHANGED <<wallet, heap, snaps, nMut, waiter, builderVars>>

\* postOrder resolves without an orderID: proposePrice is started, not
\* awaited (it issues its POST before it yields, and swallows any
\* failure), and the response is returned
PostOkNoId(i, response) ==
    /\ calls[i].pc = "posting"
    /\ calls' = [calls EXCEPT ![i] =
          [calls[i] EXCEPT !.pc = "done", !.nPropose = @ + 1,
                           !.facts = None, !.txs = <<>>,
                           !.result = [kind |-> "raw", id |-> None,
                                       status |-> None,
                                       raw |-> Some(response)]]]
    /\ UNCHANGED <<wallet, heap, snaps, nMut, waiter, builderVars>>

\* a status fetch whose order id was listed before the fetch
FetchFailListed(i) ==
    /\ calls[i].pc = "fetching"
    /\ heap' = [heap EXCEPT ![RegistryRef] = Append(@, calls[i].oid[1])]
    /\ calls' = [calls EXCEPT ![i] =
          ExecuteOrderCatch(calls[i], ClobError, "fetch", i)]
    /\ UNCHANGED <<wallet, snaps, nMut, waiter, builderVars>>

\* getOrder rejects
FetchFail(i) ==
    /\ calls[i].pc = "fetching"
    /\ calls' = [calls EXCEPT ![i] =
          ExecuteOrderCatch(calls[i], ClobError, "fetch", i)]
    /\ UNCHANGED <<wallet, heap, snaps, nMut, waiter, builderVars>>

\* getOrder resolves with a value that has no status string
FetchNoStatus(i) ==
    /\ calls[i].pc = "fetching"
    /\ calls' = [calls EXCEPT ![i] =
          ExecuteOrderCatch(calls[i], TypeError, "status", i)]
    /\ UNCHANGED <<wallet, heap, snaps, nMut, waiter, builderVars>>

\* a status test that is case-sensitive
IsMatchedExact(status) == status = StrMatched

\* op.status.toLowerCase() === "matched"
IsMatched(status) == ToLowerCase(status) = StrMatched

\* a registry update that also drops the id of a matched order
RegistryAfterDropping(registry, orderID, status) ==
    IF ~IsMatched(status) THEN Append(registry, orderID)
    ELSE SelectSeq(registry, LAMBDA x : x # orderID)

\* lines 193-195: the registry after the status of orderID was fetched
RegistryAfter(registry, orderID, status) ==
    IF ~IsMatched(status) THEN Append(registry, orderID) ELSE registry

\* a registry update that assigns a fresh one-element array
FetchOkOverwrite(i, status) ==
    /\ calls[i].pc = "fetching"
    /\ heap' = [heap EXCEPT ![RegistryRef] =
                   IF ToLowerCase(status) = StrMatched THEN @
                   ELSE <<calls[i].oid[1]>>]
    /\ calls' = [calls EXCEPT ![i] =
          [calls[i] EXCEPT !.pc = "done",
                           !.result = [kind |-> "order", id |-> calls[i].oid,
                                       status |-> Some(status),
                                       raw |-> None]]]
    /\ UNCHANGED <<wallet, snaps, nMut, waiter, builderVars>>

\* getOrder resolves with an order snapshot
FetchOk(i, status) ==
    /\ calls[i].pc = "fetching"
    /\ heap' = [heap EXCEPT ![RegistryRef] =
                   RegistryAfter(@, calls[i].oid[1], status)]
    /\ calls' = [calls EXCEPT ![i] =
          [calls[i] EXCEPT !.pc = "done",
                           !.result = [kind |-> "order", id |-> calls[i].oid,
                                       status |-> Some(status),
                                       raw |-> None]]]
    /\ UNCHANGED <<wallet, snaps, nMut, waiter, builderVars>>

\* the caller has taken the settled promise's value
ExecCollect(i) ==
    /\ calls[i].pc = "done"
    /\ calls' = [calls EXCEPT ![i] = IdleCall]
    /\ UNCHANGED <<wallet, heap, snaps, nMut, waiter, builderVars>>

\* ------------------------------------------------------ waitOrderMatched
\* what polymarketClob.getOrder can settle with
GetOrderOutcomes(orderId) ==
    {[kind |-> "throw", status |-> None],
     [kind |-> "noStatus", status |-> None]}
    \cup (IF orderId = UnknownOrderId THEN {}
          ELSE {[kind |-> "order", status |-> Some(st)] : st \in Statuses})

IdleWaiter ==
    [pc |-> "idle", id |-> None, fetches |-> 0,
     outcome |-> [kind |-> "none", status |-> None],
     result |-> [kind |-> "none", value |-> FALSE]]

\* a body without the catch block
waitOrderMatchedNoCatch(outcome) ==
    IF outcome.kind = "order"
    THEN [kind |-> "value", value |-> IsMatched(outcome.status[1])]
    ELSE [kind |-> "throw", value |-> FALSE]

\* the value waitOrderMatched settles with once getOrder has settled
waitOrderMatchedReturn(outcome) ==
    IF outcome.kind = "order"
    THEN [kind |-> "value", value |-> IsMatched(outcome.status[1])]
    ELSE [kind |-> "value", value |-> FALSE]

\* waitOrderMatched(orderId) up to its await: getOrder is called
WaitStart(orderId) ==
    /\ waiter.pc = "idle"
    /\ waiter' = [IdleWaiter EXCEPT !.pc = "fetching", !.id = Some(orderId),
                                    !.fetches = 1]
    /\ UNCHANGED <<wallet, heap, snaps, nMut, calls, builderVars>>

\* getOrder settles and waitOrderMatched returns
WaitSettle(outcome) ==
    /\ waiter.pc = "fetching"
    /\ outcome \in GetOrderOutcomes(waiter.id[1])
    /\ waiter' = [waiter EXCEPT !.pc = "done", !.outcome = outcome,
                                !.result = waitOrderMatchedReturn(outcome)]
    /\ UNCHANGED <<wallet, heap, snaps, nMut, calls, builderVars>>

\* the caller has taken the answer
WaitCollect ==
    /\ waiter.pc = "done"
    /\ waiter' = IdleWaiter
    /\ UNCHANGED <<wallet, heap, snaps, nMut, calls, builderVars>>

\* ---------------------------------------------------- getPendingOrdersIds
\* a getter that hands out the live list
getPendingOrdersIdsLive(h) == [heap |-> h, ref |-> RegistryRef]

\* getPendingOrdersIds: [...this.pendingOrderIds] allocates a new array
getPendingOrdersIds(h) ==
    LET r == Cardinality(DOMAIN h)
    IN  [heap |-> [k \in DOMAIN h \cup {r} |->
                     IF k = r THEN h[RegistryRef] ELSE h[k]],
         ref |-> r]

GetPending ==
    /\ Len(snaps) < MaxSnapshots
    /\ LET got == getPendingOrdersIds(heap)
       IN  /\ heap' = got.heap
           /\ snaps' = Append(snaps, got.ref)
    /\ UNCHANGED <<wallet, nMut, calls, waiter, builderVars>>

\* what a caller can do to an array it holds
Mutated(list, op) ==
    IF op = "push" THEN Append(list, CallerValue)
    ELSE IF op = "pop" THEN SubSeq(list, 1, Len(list) - 1)
    ELSE [list EXCEPT ![1] = CallerValue]

\* the caller mutates the p-th list it got from getPendingOrdersIds
CallerMutate(p, op) ==
    /\ nMut < MaxMutations
    /\ p \in DOMAIN snaps
    /\ op = "push" \/ Len(heap[snaps[p]]) > 0
    /\ heap' = [heap EXCEPT ![snaps[p]] = Mutated(@, op)]
    /\ nMut' = nMut + 1
    /\ UNCHANGED <<wallet, snaps, calls, waiter, builderVars>>

\* ------------------------------------------------------------ numbers
\* a JavaScript number, in hundredths, or NaN, +-Infinity, or undefined
Num(v) == [t |-> "num", v |-> v]

NaN == [t |-> "nan", v |-> 0]

Infinity == [t |-> "inf", v |-> 0]

NegInfinity == [t |-> "ninf", v |-> 0]

Undefined == [t |-> "undef", v |-> 0]

\* the truthiness of a number or undefined
Truthy(x) == x.t \in {"inf", "ninf"} \/ (x.t = "num" /\ x.v # 0)

\* a / b on numbers (undefined converts to NaN); the quotient of two
\* finite numbers is kept to hundredths
Div(a, b) ==
    IF a.t \in {"undef", "nan"} \/ b.t \in {"undef", "nan"} THEN NaN
    ELSE IF a.t \in {"inf", "ninf"}
    THEN IF b.t \in {"inf", "ninf"} THEN NaN
         ELSE IF (a.t = "inf") = (b.v >= 0) THEN Infinity ELSE NegInfinity
    ELSE IF b.t \in {"inf", "ninf"} THEN Num(0)
    ELSE IF b.v = 0
    THEN IF a.v = 0 THEN NaN
         ELSE IF a.v > 0 THEN Infinity ELSE NegInfinity
    ELSE IF (a.v >= 0) = (b.v > 0)
    THEN Num((100 * (IF a.v >= 0 THEN a.v ELSE -a.v))
             \div (IF b.v >= 0 THEN b.v ELSE -b.v))
    ELSE Num(-((100 * (IF a.v >= 0 THEN a.v ELSE -a.v))
               \div (IF b.v >= 0 THEN b.v ELSE -b.v)))

DigitChars == <<"0","1","2","3","4","5","6","7","8","9">>

IsDigits(s) ==
    \A k \in DOMAIN s : \E d \in DOMAIN DigitChars : DigitChars[d] = s[k]

DigitValue(c) == (CHOOSE d \in DOMAIN DigitChars : DigitChars[d] = c) - 1

RECURSIVE DigitsValue(_)
DigitsValue(s) ==
    IF s = <<>> THEN 0
    ELSE 10 * DigitsValue(SubSeq(s, 1, Len(s) - 1)) + DigitValue(s[Len(s)])

\* the first two decimals of a fraction, as hundredths
FractionValue(s) ==
    IF s = <<>> THEN 0
    ELSE IF Len(s) = 1 THEN 10 * DigitValue(s[1])
    ELSE 10 * DigitValue(s[1]) + DigitValue(s[2])

\* a conversion that stops at the decimal point, as parseInt does
ToNumberWhole(s) ==
    LET dots == {k \in DOMAIN s : s[k] = "."}
        whole == IF dots = {} THEN s
                 ELSE SubSeq(s, 1, (CHOOSE k \in dots : \A m \in dots : k <= m) - 1)
    IN  IF whole # <<>> /\ IsDigits(whole) THEN Num(100 * DigitsValue(whole))
        ELSE NaN

\* Number(string) for plain decimal strings; anything else is NaN
ToNumber(s) ==
    LET dots == {k \in DOMAIN s : s[k] = "."}
    IN  IF s = <<>> THEN Num(0)
        ELSE IF dots = {}
        THEN IF IsDigits(s) THEN Num(100 * DigitsValue(s)) ELSE NaN
        ELSE IF Cardinality(dots) > 1 THEN NaN
        ELSE LET d == CHOOSE k \in dots : TRUE
                 whole == SubSeq(s, 1, d - 1)
                 fraction == SubSeq(s, d + 1, Len(s))
             IN  IF ~IsDigits(whole) \/ ~IsDigits(fraction)
                    \/ (whole = <<>> /\ fraction = <<>>)
                 THEN NaN
                 ELSE Num(100 * DigitsValue(whole) + FractionValue(fraction))

\* ---------------------------------------------------- instrument resolver
Returns(value) == [kind |-> "return", value |-> value, error |-> None]

Throws(error) == [kind |-> "throw", value |-> None, error |-> Some(error)]

\* `x ? '***' : x` for a string x
Mask(x) == IF x # <<>> THEN <<"***">> ELSE x

\* the checks of getExchange before its request: the error thrown, if any
getExchangeInvalid(protocol, exchangeId, errorId) ==
    LET context == {<<"protocol", protocol>>,
                    <<"exchangeId", Mask(exchangeId)>>}
    IN  IF protocol = <<>>
        THEN Some(PolynanceApiError(
                 <<"Missing required parameter 'protocol'.">>,
                 INVALID_PARAMETER, None, Some("getExchange"), None, None,
                 context, errorId))
        ELSE IF exchangeId = <<>>
        THEN Some(PolynanceApiError(
                 <<"Missing required parameter 'exchangeId'.">>,
                 INVALID_PARAMETER, None, Some("getExchange"), None, None,
                 context, errorId))
        ELSE None

\* getExchange once its request has settled with `response`
getExchangeSettled(protocol, exchangeId, response, errorId) ==
    IF response.kind = "ok" THEN Returns(response.data)
    ELSE Throws(handleError(response.error, "getExchange",
                            {<<"protocol", protocol>>,
                             <<"exchangeId", Mask(exchangeId)>>}, errorId))

\* the check of getExchangeBySlug before its request
getExchangeBySlugInvalid(slug, errorId) ==
    IF slug = <<>>
    THEN Some(PolynanceApiError(
             <<"Missing required parameter 'slug'.">>,
             INVALID_PARAMETER, None, Some("getExchangeBySlug"), None, None,
             {<<"slug", Mask(slug)>>}, errorId))
    ELSE None

\* a slug resolver that returns whatever list the backend sent
getExchangeBySlugSettledUnchecked(slug, response, errorId) ==
    IF response.kind = "ok" THEN Returns(response.data)
    ELSE Throws(handleError(response.error, "getExchangeBySlug",
                            {<<"slug", Mask(slug)>>}, errorId))

\* getExchangeBySlug once its request has settled with `response`
getExchangeBySlugSettled(slug, response, errorId) ==
    LET context == {<<"slug", Mask(slug)>>}
    IN  IF response.kind = "ok"
        THEN IF response.status = 404 \/ Len(response.data) = 0
             THEN Throws(handleError(
                      PolynanceApiError(
                          <<"Exchange with slug '">> \o slug
                              \o <<"' not found.">>,
                          NOT_FOUND, None, Some("getExchangeBySlug"),
                          Some(404), None, context, errorId),
                      "getExchangeBySlug", context, errorId))
             ELSE Returns(response.data)
        ELSE Throws(handleError(response.error, "getExchangeBySlug",
                                context, errorId))

\* marketIdOrSlug.includes("-")
IsSlug(marketIdOrSlug) == Includes(marketIdOrSlug, <<"-">>)

\* ------------------------------------------------------- backend answers
Yes == <<"Y","e","s">>

No == <<"N","o">>

\* exchanges the backend knows: two priced outcomes; a zero price; no
\* outcomes at all; a price that is not a number
Exchanges ==
    {[id |-> "e1",
      position_tokens |->
         <<[token_id |-> "t1", name |-> Yes, price |-> <<"0",".","5">>],
           [token_id |-> "t2", name |-> No, price |-> <<"0",".","2","5">>]>>],
     [id |-> "e2",
      position_tokens |->
         <<[token_id |-> "t3", name |-> ToUpperCase(Yes), price |-> <<"0">>],
           [token_id |-> "t4", name |-> Yes, price |-> <<"0",".","5">>]>>],
     [id |-> "e3", position_tokens |-> <<>>],
     [id |-> "e4",
      position_tokens |->
         <<[token_id |-> "t5", name |-> Yes, price |-> <<"n","/","a">>],
           [token_id |-> "t6", name |-> No, price |-> <<"1">>]>>]}

\* errors a request of the api client rejects with
RequestErrors ==
    {NewAxiosError("ERR_BAD_REQUEST",
                   <<"Request failed with status code 404">>,
                   Some([status |-> 404, data |-> None]), TRUE,
                   Some([url |-> Some("/v1/markets"),
                         method |-> <<"g","e","t">>])),
     NewAxiosError("ECONNABORTED", <<"timeout of 100000ms exceeded">>,
                   None, TRUE,
                   Some([url |-> Some("/v1/markets"),
                         method |-> <<"g","e","t">>])),
     NewAxiosError("ERR_NETWORK", <<"Network Error">>, None, TRUE, None)}

NoResponse == [kind |-> "none", status |-> 0, data |-> None, error |-> None]

\* what GET /v1/markets/{id} can answer
GetExchangeResponses ==
    {[kind |-> "ok", status |-> 200, data |-> Some(e), error |-> None]
        : e \in Exchanges}
    \cup {[kind |-> "ok", status |-> 200, data |-> None, error |-> None]}
    \cup {[kind |-> "fail", status |-> 0, data |-> None, error |-> e]
             : e \in RequestErrors}

\* what GET /v1/agg/market can answer
GetExchangeBySlugResponses ==
    {[kind |-> "ok", status |-> st, data |-> d, error |-> None]
        : st \in {200, 404},
          d \in {<<>>} \cup {<<e>> : e \in Exchanges}
                \cup {<<e, f>> : e \in {x \in Exchanges : x.id \in {"e2", "e3"}},
                                 f \in {x \in Exchanges : x.id = "e1"}}}
    \cup {[kind |-> "fail", status |-> 0, data |-> <<>>, error |-> e]
             : e \in RequestErrors}

\* the answers the resolver call of buildOrder can get for params
ResolverResponses(marketIdOrSlug) ==
    IF IsSlug(marketIdOrSlug) THEN GetExchangeBySlugResponses
    ELSE GetExchangeResponses

SlugValue == <<"m","-","1">>

IdValue == <<"m","1">>

\* intents that differ in what they say about amount, price and size
PricingParams ==
    [provider : {"polymarket"},
     marketIdOrSlug : {SlugValue},
     positionIdOrName : {ToUpperCase(Yes), ToLowerCase(No)},
     buyOrSell : {"BUY", "SELL"},
     usdcFlowAbs : {Num(5000), Num(10000)},
     price : {Undefined, Num(0), Num(25), Num(-40)},
     size : {Undefined, Num(0), Num(300)}]

ParamsSet ==
    [provider : {"polymarket", "limitless"},
     marketIdOrSlug : {SlugValue, IdValue, <<>>},
     positionIdOrName : {ToLowerCase(Yes), <<"m","a","y","b","e">>},
     buyOrSell : {"BUY", "SELL"},
     usdcFlowAbs : {Num(100)},
     price : {Undefined, Num(0), Num(40)},
     size : {Undefined, Num(0), Num(300)}]

\* ---------------------------------------------------------- order builder
\* the position token of an exchange that params names; None if absent
FindPositionToken(exchange, params) ==
    LET tokens == exchange.position_tokens
        hits == {k \in DOMAIN tokens :
                    ToLowerCase(tokens[k].name)
                        = ToLowerCase(params.positionIdOrName)}
    IN  IF hits = {} THEN None
        ELSE Some(tokens[CHOOSE k \in hits : \A m \in hits : k <= m])

\* an order builder that takes every price and size that is given, zero
\* included
UserOrderOfGiven(params, positionToken) ==
    LET price == IF params.price # Undefined THEN params.price
                 ELSE ToNumber(positionToken.price)
        size == IF params.size # Undefined THEN params.size
                ELSE Div(params.usdcFlowAbs, price)
    IN  [tokenID |-> positionToken.token_id,
         side |-> IF params.buyOrSell = "BUY" THEN "BUY" ELSE "SELL",
         price |-> price,
         size |-> size,
         rest |-> params]

\* lines 149-160: the UserOrder built from params and the matched token
UserOrderOf(params, positionToken) ==
    LET price == IF Truthy(params.price) THEN params.price
                 ELSE ToNumber(positionToken.price)
        size == IF Truthy(params.size) THEN params.size
                ELSE Div(params.usdcFlowAbs, price)
    IN  [tokenID |-> positionToken.token_id,
         side |-> IF params.buyOrSell = "BUY" THEN "BUY" ELSE "SELL",
         price |-> price,
         size |-> size,
         rest |-> params]

\* lines 143-165: the UserOrder, or None when the token is missing
BuildUserOrder(exchange, params) ==
    LET positionToken == FindPositionToken(exchange, params)
    IN  IF positionToken = None THEN None
        ELSE Some(UserOrderOf(params, positionToken[1]))

\* a resolution that takes the last exchange a slug resolves to
ResolveExchangeLast(params, response, errorId) ==
    IF IsSlug(params.marketIdOrSlug)
    THEN LET got == getExchangeBySlugSettled(params.marketIdOrSlug,
                                             response, errorId)
         IN  IF got.kind = "return" /\ Len(got.value) > 0
             THEN Some(got.value[Len(got.value)]) ELSE None
    ELSE IF getExchangeInvalid(<<"polymarket">>, params.marketIdOrSlug,
                               errorId) # None
    THEN None
    ELSE LET got == getExchangeSettled(<<"polymarket">>,
                                       params.marketIdOrSlug, response,
                                       errorId)
         IN  IF got.kind = "return" THEN got.value ELSE None

\* lines 125-137: the exchange the resolver call yields, None for null
\* or undefined; `response` is what the backend answered if a request was
\* made
ResolveExchange(params, response, errorId) ==
    IF IsSlug(params.marketIdOrSlug)
    THEN LET got == getExchangeBySlugSettled(params.marketIdOrSlug,
                                             response, errorId)
         IN  IF got.kind = "return" /\ Len(got.value) > 0
             THEN Some(got.value[1]) ELSE None
    ELSE IF getExchangeInvalid(<<"polymarket">>, params.marketIdOrSlug,
                               errorId) # None
    THEN None
    ELSE LET got == getExchangeSettled(<<"polymarket">>,
                                       params.marketIdOrSlug, response,
                                       errorId)
         IN  IF got.kind = "return" THEN got.value ELSE None

\* the resolver call of buildOrder sends a request
ResolverSendsRequest(params) ==
    IsSlug(params.marketIdOrSlug)
        \/ getExchangeInvalid(<<"polymarket">>, params.marketIdOrSlug, 0)
               = None

IdleBuild ==
    [pc |-> "idle", params |-> None, resolver |-> "none", nResolve |-> 0,
     nRequests |-> 0, response |-> None, nSign |-> 0,
     exchange |-> None, uo |-> None,
     result |-> [kind |-> "none", value |-> None, error |-> None]]

\* buildOrder throws `error` as it is
BuildThrow(b, error) == [b EXCEPT !.pc = "done", !.result = Throws(error)]

\* buildOrder from the resolver call on, up to the await of its request
BuildResolve(b) ==
    [b EXCEPT !.pc = "resolving",
              !.resolver = IF IsSlug(b.params[1].marketIdOrSlug)
                           THEN "getExchangeBySlug" ELSE "getExchange",
              !.nResolve = @ + 1,
              !.nRequests = IF ResolverSendsRequest(b.params[1])
                            THEN @ + 1 ELSE @]

\* a builder that does not look at the provider before it resolves
BuildStartAnyProvider(params, walletArg) ==
    /\ build.pc = "idle"
    /\ LET b == [IdleBuild EXCEPT !.params = Some(params)]
       IN  build' =
             IF ~creds /\ ~walletArg /\ wallet = "none"
             THEN BuildThrow(b,
                      NewError(<<"Wallet is required to execute order">>))
             ELSE IF ~creds THEN [b EXCEPT !.pc = "creds"]
             ELSE BuildResolve(b)
    /\ UNCHANGED <<wallet, creds, res, cls, sub, trackingVars>>

\* buildOrder(params, wallet) up to its first await
BuildStart(params, walletArg) ==
    /\ build.pc = "idle"
    /\ LET b == [IdleBuild EXCEPT !.params = Some(params)]
       IN  build' =
             IF params.provider # "polymarket"
             THEN BuildThrow(b,
                      NewError(<<"Now Only Polymarket is supported">>))
             ELSE IF ~creds /\ ~walletArg /\ wallet = "none"
             THEN BuildThrow(b,
                      NewError(<<"Wallet is required to execute order">>))
             ELSE IF ~creds THEN [b EXCEPT !.pc = "creds"]
             ELSE BuildResolve(b)
    /\ UNCHANGED <<wallet, creds, res, cls, sub, trackingVars>>

\* initCreds resolves: the client has credentials
BuildCredsOk ==
    /\ build.pc = "creds"
    /\ creds' = TRUE
    /\ build' = BuildResolve(build)
    /\ UNCHANGED <<wallet, res, cls, sub, trackingVars>>

\* initCreds throws what its catch block wrapped
BuildCredsFail ==
    /\ build.pc = "creds"
    /\ build' = BuildThrow(build, handleError(ClobError, "initCreds", {}, 1))
    /\ UNCHANGED <<wallet, creds, res, cls, sub, trackingVars>>

\* the resolver call settles; token matching and pricing follow, then
\* createOrder is called
BuildResolved(response) ==
    /\ build.pc = "resolving"
    /\ response \in (IF ResolverSendsRequest(build.params[1])
                     THEN ResolverResponses(build.params[1].marketIdOrSlug)
                     ELSE {NoResponse})
    /\ LET params == build.params[1]
           exchange == ResolveExchange(params, response, 1)
           uo == IF exchange = None THEN None
                 ELSE BuildUserOrder(exchange[1], params)
       IN  build' =
             IF exchange = None
             THEN [build EXCEPT
                     !.pc = "done", !.response = Some(response),
                     !.result = Throws(handleError(
                         NewError(<<"Exchange not found">>), "buildOrder",
                         {<<"params", params>>}, 1))]
             ELSE IF uo = None
             THEN [build EXCEPT
                     !.pc = "done", !.response = Some(response),
                     !.exchange = exchange,
                     !.result = Throws(handleError(
                         NewError(<<"UserOrder not found">>), "buildOrder",
                         {<<"params", params>>}, 1))]
             ELSE [build EXCEPT !.pc = "signing",
                                !.response = Some(response),
                                !.exchange = exchange,
                                !.uo = uo, !.nSign = @ + 1]
    /\ UNCHANGED <<wallet, creds, res, cls, sub, trackingVars>>

\* createOrder resolves with the signed order
BuildSignOk ==
    /\ build.pc = "signing"
    /\ build' = [build EXCEPT !.pc = "done",
                              !.result = Returns([signed |-> build.uo[1]])]
    /\ UNCHANGED <<wallet, creds, res, cls, sub, trackingVars>>

\* createOrder rejects
BuildSignFail ==
    /\ build.pc = "signing"
    /\ build' = [build EXCEPT
                   !.pc = "done",
                   !.result = Throws(handleError(
                       NewError(<<"signing failed">>), "buildOrder",
                       {<<"userOrder", build.uo[1]>>}, 1))]
    /\ UNCHANGED <<wallet, creds, res, cls, sub, trackingVars>>

\* the caller has taken the outcome of buildOrder
BuildCollect ==
    /\ build.pc = "done"
    /\ build' = IdleBuild
    /\ UNCHANGED <<wallet, creds, res, cls, sub, trackingVars>>

\* ------------------------------------------------- resolver operations
IdleRes ==
    [pc |-> "idle", op |-> "none", protocol |-> <<>>, id |-> <<>>,
     nRequests |-> 0, response |-> None,
     result |-> [kind |-> "none", value |-> None, error |-> None]]

\* getExchange(protocol, exchangeId) up to the await of its request
GetExchangeStart(protocol, exchangeId) ==
    /\ res.pc = "idle"
    /\ LET r == [IdleRes EXCEPT !.op = "getExchange",
                                !.protocol = protocol, !.id = exchangeId]
           invalid == getExchangeInvalid(protocol, exchangeId, 1)
       IN  res' = IF invalid # None
                  THEN [r EXCEPT !.pc = "done", !.result = Throws(invalid[1])]
                  ELSE [r EXCEPT !.pc = "waiting", !.nRequests = @ + 1]
    /\ UNCHANGED <<wallet, creds, build, cls, sub, trackingVars>>

\* getExchangeBySlug(slug) up to the await of its request
GetExchangeBySlugStart(slug) ==
    /\ res.pc = "idle"
    /\ LET r == [IdleRes EXCEPT !.op = "getExchangeBySlug", !.id = slug]
           invalid == getExchangeBySlugInvalid(slug, 1)
       IN  res' = IF invalid # None
                  THEN [r EXCEPT !.pc = "done", !.result = Throws(invalid[1])]
                  ELSE [r EXCEPT !.pc = "waiting", !.nRequests = @ + 1]
    /\ UNCHANGED <<wallet, creds, build, cls, sub, trackingVars>>

\* the request of a resolver operation settles
ResolverSettle(response) ==
    /\ res.pc = "waiting"
    /\ response \in (IF res.op = "getExchange" THEN GetExchangeResponses
                     ELSE GetExchangeBySlugResponses)
    /\ res' = [res EXCEPT
                 !.pc = "done",
                 !.response = Some(response),
                 !.result =
                    IF res.op = "getExchange"
                    THEN getExchangeSettled(res.protocol, res.id, response, 1)
                    ELSE getExchangeBySlugSettled(res.id, response, 1)]
    /\ UNCHANGED <<wallet, creds, build, cls, sub, trackingVars>>

\* the caller has taken the outcome of the resolver operation
ResolverCollect ==
    /\ res.pc = "done"
    /\ res' = IdleRes
    /\ UNCHANGED <<wallet, creds, build, cls, sub, trackingVars>>

\* ------------------------------------------------- error classification
IdleCls ==
    [pc |-> "idle", error |-> None, methodName |-> "none", context |-> {},
     out |-> None, again |-> None]

\* a catch block hands `error` to handleError
Classify(error, methodName, context) ==
    /\ cls.pc = "idle"
    /\ cls' = [cls EXCEPT !.pc = "once", !.error = Some(error),
                          !.methodName = methodName, !.context = context,
                          !.out = Some(handleError(error, methodName,
                                                   context, 2))]
    /\ UNCHANGED <<wallet, creds, build, res, sub, trackingVars>>

\* an outer catch block hands the classified error to handleError again
Reclassify(methodName, context) ==
    /\ cls.pc = "once"
    /\ cls' = [cls EXCEPT !.pc = "twice",
                          !.methodName = methodName, !.context = context,
                          !.again = Some(handleError(cls.out[1], methodName,
                                                     context, 3))]
    /\ UNCHANGED <<wallet, creds, build, res, sub, trackingVars>>

\* the error has reached the caller
ClassifyDone ==
    /\ cls.pc = "twice"
    /\ cls' = IdleCls
    /\ UNCHANGED <<wallet, creds, build, res, sub, trackingVars>>

\* response bodies of a failed request
ResponseBodies ==
    {None,
     Some([message |-> Some(<<"bad slug">>), error |-> None]),
     Some([message |-> None, error |-> Some(<<"denied">>)]),
     Some([message |-> None, error |-> None])}

\* the HTTP statuses of the classification table, and some outside it
HttpStatuses == {302, 400, 401, 403, 404, 418, 429, 500, 501, 502, 503, 504,
                 505}

TimeoutMessages == {<<"t","i","m","e","o","u","t">>,
                    <<"T","i","m","e","o","u","t">>,
                    <<"a","b","o","r","t">>}

\* the responses a rejected request can carry: every status with an empty
\* body, and every body under one status
ErrorResponses ==
    {Some([status |-> st, data |-> None]) : st \in HttpStatuses}
    \cup {Some([status |-> 400, data |-> d]) : d \in ResponseBodies}

AxiosCodes == {"ECONNABORTED", "ERR_BAD_RESPONSE"}

RequestConfigs ==
    {None, Some([url |-> Some("/v1/markets"), method |-> <<"g","e","t">>])}

\* the axios errors a request can reject with; one that carries a response
\* has a request
AxiosErrors ==
    {NewAxiosError(code, message, None, request, config) :
        code \in AxiosCodes, message \in TimeoutMessages,
        request \in BOOLEAN, config \in RequestConfigs}
    \cup {NewAxiosError(code, message, response, TRUE, config) :
        code \in AxiosCodes, message \in TimeoutMessages,
        response \in ErrorResponses, config \in RequestConfigs}

\* every other thrown value
OtherErrors ==
    {NewError(<<"Exchange not found">>), TypeError,
     NewThrownValue(<<"boom">>)}

MethodNames == {"getExchange", "buildOrder"}

Contexts == {{}, {<<"slug", <<"***">>>>}}

\* errors that are PolynanceApiError instances before they reach a catch
ClassifiedErrors ==
    {handleError(e, m, c, 1) :
        e \in RequestErrors \cup OtherErrors,
        m \in MethodNames, c \in Contexts}
    \cup {getExchangeBySlugInvalid(<<>>, 1)[1],
          getExchangeInvalid(<<"polymarket">>, <<>>, 1)[1]}

ThrownErrors == AxiosErrors \cup OtherErrors \cup ClassifiedErrors

\* ---------------------------------------------------- trade subscription
\* JSON values, and undefined
JsonNumber(n) == [t |-> "number", v |-> n]

JsonString(text) == [t |-> "string", v |-> text]

JsonNull == [t |-> "null", v |-> 0]

JsonUndefined == [t |-> "undefined", v |-> 0]

\* an object is a set of <<name, value>> pairs
JsonObject(fields) == [t |-> "object", v |-> fields]

\* typeof x
TypeOf(x) == IF x.t = "null" THEN "object" ELSE x.t

\* object.name for an object or a primitive
Get(object, name) ==
    IF object.t = "object" /\ \E f \in object.v : f[1] = name
    THEN (CHOOSE f \in object.v : f[1] = name)[2]
    ELSE JsonUndefined

\* the texts the event stream carries
TradeA == "{\"price\":1,\"volumeBase\":10,\"timestamp\":1700000000}"

TradeB == "{\"price\":2,\"volumeBase\":30,\"timestamp\":1700000060}"

TradeStringPrice == "{\"price\":\"1\",\"volumeBase\":10,\"timestamp\":1700000000}"

TradeNoTimestamp == "{\"price\":1,\"volumeBase\":10}"

KeepAlive == "ping"

Texts ==
    {TradeA, TradeB, TradeStringPrice, TradeNoTimestamp, KeepAlive,
     "null", "42", "{}"}

\* JSON.parse(text) for the texts above
JsonParse(text) ==
    IF text = TradeA
    THEN Returns(JsonObject({<<"price", JsonNumber(1)>>,
                             <<"volumeBase", JsonNumber(10)>>,
                             <<"timestamp", JsonNumber(1700000000)>>}))
    ELSE IF text = TradeB
    THEN Returns(JsonObject({<<"price", JsonNumber(2)>>,
                             <<"volumeBase", JsonNumber(30)>>,
                             <<"timestamp", JsonNumber(1700000060)>>}))
    ELSE IF text = TradeStringPrice
    THEN Returns(JsonObject({<<"price", JsonString("1")>>,
                             <<"volumeBase", JsonNumber(10)>>,
                             <<"timestamp", JsonNumber(1700000000)>>}))
    ELSE IF text = TradeNoTimestamp
    THEN Returns(JsonObject({<<"price", JsonNumber(1)>>,
                             <<"volumeBase", JsonNumber(10)>>}))
    ELSE IF text = "null" THEN Returns(JsonNull)
    ELSE IF text = "42" THEN Returns(JsonNumber(42))
    ELSE IF text = "{}" THEN Returns(JsonObject({}))
    ELSE Throws(NewError(<<"Unexpected token in JSON at position 0">>))

\* event.data of the message events an EventSource dispatches: always a
\* string
Messages == {JsonString(text) : text \in Texts}

\* what a handler the caller supplied does when it is called
HandlerKinds == {"none", "returns", "throws"}

Handlers ==
    [onOpen : {"none", "throws"}, onMessage : HandlerKinds,
     onError : HandlerKinds]

\* typeof EventSource, and what new EventSource(url) does
Environments == {"available", "noEventSource", "constructorThrows"}

\* event is the data of the message event dispatched last (None after an
\* error event), called counts the handler calls made while it was
\* dispatched, passed and reported are what the handlers were given; got
\* is what getLatestData returned since
IdleSub ==
    [pc |-> "idle", protocol |-> <<>>, id |-> <<>>,
     handlers |-> [onOpen |-> "none", onMessage |-> "none",
                   onError |-> "none"],
     latestData |-> None, event |-> None,
     called |-> [onOpen |-> 0, onMessage |-> 0, onError |-> 0],
     passed |-> None, reported |-> None, escaped |-> FALSE,
     got |-> None, result |-> [kind |-> "none", value |-> None,
                               error |-> None]]

\* the subscription as an event finds it
Dispatching(s) ==
    [s EXCEPT !.event = None, !.passed = None, !.reported = None,
              !.got = None,
              !.called = [onOpen |-> 0, onMessage |-> 0, onError |-> 0]]

\* the context of the errors of one subscription
SubContext(s) == {<<"protocol", s.protocol>>, <<"id", Mask(s.id)>>}

\* lines 919-929: the try block of onmessage up to the assignment of
\* latestData: the record to assign, or the error thrown
ProcessMessage(data) ==
    IF data.t # "string"
    THEN Throws(NewError(<<"Received non-string SSE message data.">>))
    ELSE LET parsed == JsonParse(data.v)
         IN  IF parsed.kind = "throw" THEN parsed
             ELSE IF parsed.value.t = "null" THEN Throws(TypeError)
             ELSE IF \/ TypeOf(Get(parsed.value, "price")) # "number"
                     \/ TypeOf(Get(parsed.value, "volumeBase")) # "number"
                     \/ TypeOf(Get(parsed.value, "timestamp")) # "number"
             THEN Throws(NewError(
                   <<"Received SSE message with unexpected data structure.">>))
             ELSE parsed

\* lines 946-959: the catch block of onmessage. rawData is the first 100
\* characters of the text (every text here is shorter); substring is not a
\* function of a value that is neither a string nor nullish, and the call
\* then throws out of the handler
MessageCatch(s, data, error) ==
    IF data.t \notin {"string", "null", "undefined"}
    THEN [s EXCEPT !.escaped = TRUE]
    ELSE LET rawData == IF data.t = "string" THEN Some(data.v) ELSE None
             parseError ==
                 PolynanceApiError(
                     <<"Failed to process SSE message: ">> \o error.message,
                     SSE_MESSAGE_ERROR, Some(error),
                     Some("subscribeToTrades.onMessage"), None, None,
                     Spread(SubContext(s), {<<"rawData", rawData>>}), 1)
         IN  IF s.handlers.onError = "none" THEN s
             ELSE [s EXCEPT !.called.onError = @ + 1,
                            !.reported = Some(parseError)]

\* an onmessage that calls the handler before it stores the record
OnMessageHandlerFirst(s, data) ==
    LET outcome == ProcessMessage(data)
        r == [Dispatching(s) EXCEPT !.event = Some(data)]
    IN  IF outcome.kind = "throw"
        THEN MessageCatch(r, data, outcome.error[1])
        ELSE IF r.handlers.onMessage = "none"
        THEN [r EXCEPT !.latestData = Some(outcome.value)]
        ELSE IF r.handlers.onMessage = "throws"
        THEN [r EXCEPT !.called.onMessage = @ + 1,
                       !.passed = Some(outcome.value)]
        ELSE [r EXCEPT !.latestData = Some(outcome.value),
                       !.called.onMessage = @ + 1,
                       !.passed = Some(outcome.value)]

\* lines 918-960: eventSource.onmessage. What handlers.onMessage throws is
\* caught next to the call and logged
OnMessage(s, data) ==
    LET outcome == ProcessMessage(data)
        r == [Dispatching(s) EXCEPT !.event = Some(data)]
    IN  IF outcome.kind = "throw"
        THEN MessageCatch(r, data, outcome.error[1])
        ELSE IF r.handlers.onMessage = "none"
        THEN [r EXCEPT !.latestData = Some(outcome.value)]
        ELSE [r EXCEPT !.latestData = Some(outcome.value),
                       !.called.onMessage = @ + 1,
                       !.passed = Some(outcome.value)]

\* lines 865-903 and 997-1001: subscribeToTrades(protocol, id, handlers)
Subscribe(protocol, id, handlers, environment) ==
    /\ sub.pc = "idle"
    /\ LET s == [IdleSub EXCEPT !.protocol = protocol, !.id = id,
                                !.handlers = handlers]
           failed(error) == [s EXCEPT !.pc = "failed",
                                      !.result = Throws(error)]
       IN  sub' =
             IF environment = "noEventSource"
             THEN failed(PolynanceApiError(
                     <<"EventSource is not available in this environment.",
                       " Ensure you are in a browser or have a suitable polyfill.">>,
                     ENVIRONMENT_ERROR, None, Some("subscribeToTrades"),
                     None, None, SubContext(s), 1))
             ELSE IF protocol = <<>>
             THEN failed(PolynanceApiError(
                     <<"Missing required parameter 'protocol'.">>,
                     INVALID_PARAMETER, None, Some("subscribeToTrades"),
                     None, None, SubContext(s), 1))
             ELSE IF id = <<>>
             THEN failed(PolynanceApiError(
                     <<"Missing required parameter 'id'.">>,
                     INVALID_PARAMETER, None, Some("subscribeToTrades"),
                     None, None, SubContext(s), 1))
             ELSE IF environment = "constructorThrows"
             THEN failed(handleError(
                     NewError(<<"Failed to construct 'EventSource'">>),
                     "subscribeToTrades",
                     Spread(SubContext(s),
                            {<<"url", <<"/sse/fillevent?protocol=">>
                                      \o protocol \o <<"&id=">> \o id>>}),
                     1))
             ELSE [s EXCEPT !.pc = "connecting",
                            !.result = Returns("subscription")]
    /\ UNCHANGED <<wallet, creds, build, res, cls, trackingVars>>

\* lines 907-916: the connection opens
SseOpen ==
    /\ sub.pc = "connecting"
    /\ sub' = [Dispatching(sub) EXCEPT
                 !.pc = "open",
                 !.called.onOpen = IF sub.handlers.onOpen = "none"
                                   THEN @ ELSE @ + 1]
    /\ UNCHANGED <<wallet, creds, build, res, cls, trackingVars>>

\* a message event is dispatched
SseMessage(data) ==
    /\ sub.pc = "open"
    /\ sub' = OnMessage(sub, data)
    /\ UNCHANGED <<wallet, creds, build, res, cls, trackingVars>>

\* lines 962-986: an error event is dispatched, with the connection closed
\* for good or about to reconnect
SseError(isClosed) ==
    /\ sub.pc \in {"connecting", "open"}
    /\ LET sseError ==
             PolynanceApiError(
                 (IF isClosed
                  THEN <<"SSE connection closed unexpectedly for ">>
                  ELSE <<"SSE connection error occurred for ">>)
                     \o sub.protocol \o <<"/">> \o sub.id \o <<".">>,
                 IF isClosed THEN SSE_CLOSED ELSE SSE_CONNECTION_FAILED,
                 Some(NewError(<<"SSE Error Event: {\"isTrusted\":true}">>)),
                 Some("subscribeToTrades.onError"), None, None,
                 SubContext(sub), 1)
       IN  sub' = [Dispatching(sub) EXCEPT
                     !.pc = IF isClosed THEN "closed" ELSE "connecting",
                     !.called.onError = IF sub.handlers.onError = "none"
                                        THEN @ ELSE @ + 1,
                     !.reported = IF sub.handlers.onError = "none"
                                  THEN @ ELSE Some(sseError)]
    /\ UNCHANGED <<wallet, creds, build, res, cls, trackingVars>>

\* line 1000: getLatestData()
GetLatestData ==
    /\ sub.pc \in {"connecting", "open", "closed"}
    /\ sub' = [sub EXCEPT !.got = Some(sub.latestData)]
    /\ UNCHANGED <<wallet, creds, build, res, cls, trackingVars>>

\* lines 990-995: close()
Close ==
    /\ sub.pc \in {"connecting", "open"}
    /\ sub' = [sub EXCEPT !.pc = "closed"]
    /\ UNCHANGED <<wallet, creds, build, res, cls, trackingVars>>

\* the caller lets go of the subscription, or of the error it got
SubscriptionDropped ==
    /\ sub.pc \in {"closed", "failed"}
    /\ sub' = IdleSub
    /\ UNCHANGED <<wallet, creds, build, res, cls, trackingVars>>

\* ------------------------------------------------------- specification
Init ==
    /\ wallet \in WalletKinds
    /\ heap = [r \in {RegistryRef} |-> <<>>]
    /\ snaps = <<>>
    /\ nMut = 0
    /\ calls = [i \in Calls |-> IdleCall]
    /\ waiter = IdleWaiter
    /\ creds = FALSE
    /\ build = IdleBuild
    /\ res = IdleRes
    /\ cls = IdleCls
    /\ sub = IdleSub

\* every permission is in place / none is: the chain states the
\* specifications about order tracking explore
SufficientFacts == [perm |-> <<1, 1, TRUE, TRUE>>, balance |-> 5]

MissingFacts == [perm |-> <<0, 0, FALSE, FALSE>>, balance |-> 5]

TrackFacts == {SufficientFacts, MissingFacts}

\* concurrent executeOrder invocations on one client
Next ==
    \/ \E i \in Calls, rpcProvider \in BOOLEAN, walletArg \in BOOLEAN :
           ExecStart(i, rpcProvider, walletArg)
    \/ \E i \in Calls, nOk \in {0, 4} : ReadsFail(i, nOk)
    \/ \E i \in Calls, facts \in TrackFacts : ReadsOk(i, facts)
    \/ \E i \in Calls : TxOk(i)
    \/ \E i \in Calls : TxFail(i)
    \/ \E i \in Calls : PostFail(i)
    \/ \E i \in Calls, orderID \in OrderIds : PostOkWithId(i, orderID)
    \/ \E i \in Calls, response \in NoIdResponses : PostOkNoId(i, response)
    \/ \E i \in Calls : FetchFail(i)
    \/ \E i \in Calls : FetchNoStatus(i)
    \/ \E i \in Calls, status \in Statuses : FetchOk(i, status)
    \/ \E i \in Calls : ExecCollect(i)

Spec == Init /\ [][Next]_vars

\* one executeOrder at a time against every chain state
NextAllow ==
    \/ \E rpcProvider \in BOOLEAN, walletArg \in BOOLEAN :
           ExecStart(1, rpcProvider, walletArg)
    \/ \E nOk \in 0..4 : ReadsFail(1, nOk)
    \/ \E facts \in FactsSet : ReadsOk(1, facts)
    \/ TxOk(1)
    \/ TxFail(1)
    \/ PostFail(1)
    \/ \E orderID \in OrderIds : PostOkWithId(1, orderID)
    \/ \E response \in NoIdResponses : PostOkNoId(1, response)
    \/ FetchFail(1)
    \/ FetchNoStatus(1)
    \/ \E status \in Statuses : FetchOk(1, status)
    \/ ExecCollect(1)

SpecAllow == Init /\ [][NextAllow]_vars

\* one executeOrder at a time, with waitOrderMatched and
\* getPendingOrdersIds
NextTrack ==
    \/ \E rpcProvider \in BOOLEAN, walletArg \in BOOLEAN :
           ExecStart(1, rpcProvider, walletArg)
    \/ \E nOk \in {0, 4} : ReadsFail(1, nOk)
    \/ \E facts \in TrackFacts : ReadsOk(1, facts)
    \/ TxOk(1)
    \/ TxFail(1)
    \/ PostFail(1)
    \/ \E orderID \in OrderIds : PostOkWithId(1, orderID)
    \/ \E response \in NoIdResponses : PostOkNoId(1, response)
    \/ FetchFail(1)
    \/ FetchNoStatus(1)
    \/ \E status \in Statuses : FetchOk(1, status)
    \/ ExecCollect(1)
    \/ \E orderId \in OrderIds \cup {UnknownOrderId} : WaitStart(orderId)
    \/ \E outcome \in GetOrderOutcomes(UnknownOrderId)
                      \cup GetOrderOutcomes("o1") : WaitSettle(outcome)
    \/ WaitCollect
    \/ GetPending

SpecTrack == Init /\ [][NextTrack]_vars

\* one executeOrder at a time, with getPendingOrdersIds and a caller that
\* mutates the lists it was given
NextSnap ==
    \/ \E rpcProvider \in BOOLEAN, walletArg \in BOOLEAN :
           ExecStart(1, rpcProvider, walletArg)
    \/ \E nOk \in {0, 4} : ReadsFail(1, nOk)
    \/ \E facts \in TrackFacts : ReadsOk(1, facts)
    \/ TxOk(1)
    \/ TxFail(1)
    \/ PostFail(1)
    \/ \E orderID \in OrderIds : PostOkWithId(1, orderID)
    \/ \E response \in NoIdResponses : PostOkNoId(1, response)
    \/ FetchFail(1)
    \/ FetchNoStatus(1)
    \/ \E status \in Statuses : FetchOk(1, status)
    \/ ExecCollect(1)
    \/ GetPending
    \/ \E p \in 1..MaxSnapshots, op \in {"push", "pop", "set"} :
           CallerMutate(p, op)

SpecSnap == Init /\ [][NextSnap]_vars

\* buildOrder and the resolver operations, one invocation of each at a time
NextBuild ==
    \/ \E params \in ParamsSet, walletArg \in BOOLEAN :
          BuildStart(params, walletArg)
    \/ BuildCredsOk
    \/ BuildCredsFail
    \/ \E response \in GetExchangeResponses \cup GetExchangeBySlugResponses
                         \cup {NoResponse} :
          BuildResolved(response)
    \/ BuildSignOk
    \/ BuildSignFail
    \/ BuildCollect
    \/ \E protocol \in {<<"polymarket">>, <<>>}, exchangeId \in {IdValue, <<>>} :
          GetExchangeStart(protocol, exchangeId)
    \/ \E slug \in {SlugValue, <<>>} : GetExchangeBySlugStart(slug)
    \/ \E response \in GetExchangeResponses \cup GetExchangeBySlugResponses :
          ResolverSettle(response)
    \/ ResolverCollect

SpecBuild == Init /\ [][NextBuild]_vars

\* one executeOrder at a time next to the resolver operations: the calls
\* that reach the clob and the backend
NextRequests ==
    \/ \E rpcProvider \in BOOLEAN, walletArg \in BOOLEAN :
           ExecStart(1, rpcProvider, walletArg)
    \/ \E nOk \in {0, 4} : ReadsFail(1, nOk)
    \/ \E facts \in TrackFacts : ReadsOk(1, facts)
    \/ TxOk(1)
    \/ TxFail(1)
    \/ PostFail(1)
    \/ \E orderID \in OrderIds : PostOkWithId(1, orderID)
    \/ \E response \in NoIdResponses : PostOkNoId(1, response)
    \/ FetchFail(1)
    \/ FetchNoStatus(1)
    \/ \E status \in Statuses : FetchOk(1, status)
    \/ ExecCollect(1)
    \/ \E protocol \in {<<"polymarket">>, <<>>}, exchangeId \in {IdValue, <<>>} :
          GetExchangeStart(protocol, exchangeId)
    \/ \E slug \in {SlugValue, <<>>} : GetExchangeBySlugStart(slug)
    \/ \E response \in GetExchangeResponses \cup GetExchangeBySlugResponses :
          ResolverSettle(response)
    \/ ResolverCollect

SpecRequests == Init /\ [][NextRequests]_vars

\* one trade subscription at a time
NextSse ==
    \/ \E protocol \in {<<"polymarket">>, <<>>}, id \in {IdValue, <<>>},
          handlers \in Handlers, environment \in Environments :
          Subscribe(protocol, id, handlers, environment)
    \/ SseOpen
    \/ \E data \in Messages : SseMessage(data)
    \/ \E isClosed \in BOOLEAN : SseError(isClosed)
    \/ GetLatestData
    \/ Close
    \/ SubscriptionDropped

SpecSse == Init /\ [][NextSse]_vars

\* buildOrder alone, over the intents that exercise pricing
NextPrice ==
    \/ \E params \in PricingParams, walletArg \in BOOLEAN :
          BuildStart(params, walletArg)
    \/ BuildCredsOk
    \/ BuildCredsFail
    \/ \E response \in GetExchangeBySlugResponses : BuildResolved(response)
    \/ BuildSignOk
    \/ BuildSignFail
    \/ BuildCollect

SpecPrice == Init /\ [][NextPrice]_vars

\* errors on their way through one or two catch blocks
NextErr ==
    \/ \E error \in ThrownErrors, methodName \in MethodNames,
          context \in Contexts :
          Classify(error, methodName, context)
    \/ \E methodName \in MethodNames, context \in Contexts :
          Reclassify(methodName, context)
    \/ ClassifyDone

SpecErr == Init /\ [][NextErr]_vars

\* ================================================================ claims
Range(seq) == {seq[n] : n \in DOMAIN seq}

IsPrefix(a, b) == Len(a) <= Len(b) /\ SubSeq(b, 1, Len(a)) = a

\* the call in slot i has returned the order snapshot it fetched
ReturnedSnapshot(i) ==
    calls[i].pc = "done" /\ calls[i].result.kind = "order"

\* C1 as stated: once executeOrder has returned the fetched snapshot of
\* order X, X is listed by getPendingOrdersIds() if the status is not
\* "matched" (case-insensitively) and is not listed if it is "matched".
C1_AsStated ==
    \A i \in Calls :
        ReturnedSnapshot(i) =>
            LET X == calls[i].result.id[1]
                st == calls[i].result.status[1]
            IN  IF ToLowerCase(st) # StrMatched
                THEN X \in Range(pendingOrderIds)
                ELSE X \notin Range(pendingOrderIds)

\* C1 amended: in the step in which executeOrder returns the fetched
\* snapshot of order X, a status other than "matched" (case-insensitively)
\* appends X to the registry, and a "matched" status leaves the registry
\* as it was, so X is listed afterwards exactly if it was listed before.
C1_ReturnUpdatesRegistry ==
    [][\A i \in Calls :
          (calls[i].pc = "fetching" /\ calls'[i].pc = "done"
             /\ calls'[i].result.kind = "order") =>
            LET X == calls'[i].result.id[1]
                st == calls'[i].result.status[1]
            IN  IF ToLowerCase(st) # StrMatched
                THEN pendingOrderIds' = Append(pendingOrderIds, X)
                ELSE pendingOrderIds' = pendingOrderIds]_vars

\* a call returned a "matched" snapshot of an order an earlier call listed
C1_Witness ==
    \E i \in Calls :
        /\ ReturnedSnapshot(i)
        /\ ToLowerCase(calls[i].result.status[1]) = StrMatched
        /\ calls[i].result.status[1] # StrMatched
        /\ calls[i].result.id[1] \in Range(pendingOrderIds)

\* the j-th permission fact read from the chain is insufficient
Insufficient(facts, j) ==
    IF j \in {1, 2} THEN facts.perm[j] = 0 ELSE facts.perm[j] = FALSE

\* C2: within one executeOrder invocation postOrder is called only after
\* approveAllowanceBalance returned: all five reads resolved and every
\* corrective transaction the reads call for was sent; when the allowance
\* step throws, postOrder is not called.
C2_PostAfterAllowance ==
    \A i \in Calls :
        /\ calls[i].nPost > 0 =>
               calls[i].allowance = "returned" /\ calls[i].reads = 5
        /\ calls[i].pc = "posting" =>
               \A j \in 1..4 :
                   Insufficient(calls[i].facts[1], j) =>
                       Checks[j] \in Range(calls[i].txs)
        /\ calls[i].allowance = "threw" => calls[i].nPost = 0

\* postOrder was called after two or more corrective transactions
C2_Witness ==
    \E i \in Calls :
        calls[i].pc = "posting" /\ calls[i].nPost = 1
            /\ Len(calls[i].txs) >= 2

\* C3: executeOrder never throws: after a failure of the configuration
\* checks, the allowance step, postOrder or the status fetch the error was
\* converted by handleError and the call returned null.
C3_NeverThrows ==
    \A i \in Calls :
        /\ calls[i].result.kind # "throw"
        /\ (calls[i].pc = "done" /\ calls[i].fail # "none") =>
               /\ calls[i].result = NullResult
               /\ calls[i].caught # None
               /\ calls[i].caught[1].kind = "PolynanceApiError"
        /\ calls[i].pc = "done" => calls[i].result.kind # "none"

\* one call failed in a corrective transaction, another in the status
\* fetch, and both returned null
C3_Witness ==
    \E i, j \in Calls :
        /\ calls[i].pc = "done" /\ calls[i].fail = "tx"
        /\ calls[j].pc = "done" /\ calls[j].fail = "fetch"
        /\ calls[i].result = NullResult /\ calls[j].result = NullResult

\* the transactions of a list sent to `contract` for `spender`
SentTo(txs, contract, spender) ==
    {n \in DOMAIN txs :
        txs[n].contract = contract /\ txs[n].spender = spender}

\* C4: one approveAllowanceBalance call sends at most one corrective
\* transaction per (token contract, spender) pair, at most four in all, and
\* none when both allowances are non-zero and both flags are true.
C4_AtMostOnePerPair ==
    \A i \in Calls :
        /\ \A contract \in {"usdc", "ctf"},
              spender \in {"negRiskAdapter", "negRiskExchange"} :
               Cardinality(SentTo(calls[i].txs, contract, spender)) <= 1
        /\ Len(calls[i].txs) <= 4
        /\ (calls[i].facts # None
              /\ \A j \in 1..4 : ~Insufficient(calls[i].facts[1], j)) =>
               calls[i].txs = <<>>

\* all four corrective transactions were sent
C4_Witness ==
    \E i \in Calls : calls[i].pc = "posting" /\ Len(calls[i].txs) = 4

\* C5: when a read fails approveAllowanceBalance sends no transaction, when
\* a corrective transaction fails it sends no later one; in both cases it
\* throws one PolynanceApiError that wraps the chain error, and it does not
\* return a balance (postOrder is not reached).
C5_AbortOnFailure ==
    \A i \in Calls :
        calls[i].allowance = "threw" =>
            /\ calls[i].pc = "done" /\ calls[i].nPost = 0
            /\ calls[i].fail \in {"reads", "tx"}
            /\ calls[i].fail = "reads" =>
                   calls[i].txs = <<>> /\ calls[i].reads < 5
            /\ calls[i].fail = "tx" =>
                   /\ calls[i].txs # <<>>
                   /\ calls[i].txs[Len(calls[i].txs)] = Checks[calls[i].k]
                   /\ \A n \in DOMAIN calls[i].txs :
                          \E j \in 1..calls[i].k : calls[i].txs[n] = Checks[j]
            /\ calls[i].caught # None
            /\ calls[i].caught[1].kind = "PolynanceApiError"
            /\ calls[i].caught[1].methodName = Some("approveAllowance")
            /\ calls[i].caught[1].originalError = Some(ChainError)

\* a corrective transaction failed after an earlier one was sent
C5_Witness ==
    \E i \in Calls :
        calls[i].allowance = "threw" /\ calls[i].fail = "tx"
            /\ Len(calls[i].txs) >= 2

\* C6: waitOrderMatched makes exactly one status fetch and returns when it
\* settles: true iff the fetch gave a status that is "matched"
\* case-insensitively, false (never a throw) when the fetch failed or gave
\* no status, as for an unknown order id.
C6_SingleFetch ==
    /\ waiter.result.kind # "throw"
    /\ waiter.pc = "fetching" => waiter.fetches = 1
    /\ waiter.pc = "done" =>
           /\ waiter.fetches = 1
           /\ waiter.result.kind = "value"
           /\ waiter.result.value <=>
                  (waiter.outcome.kind = "order"
                     /\ ToLowerCase(waiter.outcome.status[1]) = StrMatched)

\* waitOrderMatched of an unknown id returned false after a failed fetch
C6_Witness ==
    /\ waiter.pc = "done"
    /\ waiter.id = Some(UnknownOrderId)
    /\ waiter.outcome.kind = "throw"
    /\ waiter.result = [kind |-> "value", value |-> FALSE]

\* the held lists a step changes
ChangedSnaps ==
    {q \in DOMAIN snaps : heap'[snaps[q]] # heap[snaps[q]]}

\* C7: getPendingOrdersIds returns a copy: the list it returns equals the
\* registry at that moment, a caller's mutation of a list it was given
\* changes that list only, not the registry nor any other list handed
\* out, and nothing a caller wrote ever shows up in the registry.
C7_SnapshotCopy ==
    [][/\ CallerValue \notin Range(pendingOrderIds')
       /\ nMut' # nMut =>
             /\ pendingOrderIds' = pendingOrderIds
             /\ Cardinality(ChangedSnaps) <= 1
       /\ Len(snaps') > Len(snaps) =>
             /\ heap'[snaps'[Len(snaps')]] = pendingOrderIds
             /\ pendingOrderIds' = pendingOrderIds
             /\ ChangedSnaps = {}]_vars

\* the caller holds two lists, mutated one, and the registry is not empty
C7_Witness ==
    /\ nMut > 0
    /\ Len(snaps) = 2
    /\ heap[snaps[1]] # heap[snaps[2]]
    /\ Len(pendingOrderIds) > 0

\* C8: the registry only grows at its end: every step of executeOrder,
\* waitOrderMatched and getPendingOrdersIds leaves the old registry as a
\* prefix of the new one, also after waitOrderMatched returned true.
C8_AppendOnly ==
    [][IsPrefix(pendingOrderIds, pendingOrderIds')]_vars

\* waitOrderMatched(id) returned true and id is still listed
C8_Witness ==
    /\ waiter.pc = "done"
    /\ waiter.result = [kind |-> "value", value |-> TRUE]
    /\ waiter.id[1] \in Range(pendingOrderIds)

\* an outcome a caller can rely on: a returned result, or one thrown
\* PolynanceApiError
StructuredOutcome(result) ==
    \/ result.kind \in {"none", "return"}
    \/ result.kind = "throw" /\ result.error[1].kind = "PolynanceApiError"

\* C9: buildOrder, getExchange and getExchangeBySlug either return a result
\* or throw a PolynanceApiError, on every path.
C9_StructuredErrors ==
    /\ StructuredOutcome(build.result)
    /\ StructuredOutcome(res.result)

\* C10: handleError returns the very error it was given whenever that error
\* is already a PolynanceApiError, so classifying a classified error again,
\* under any method name and context, changes nothing.
C10_ClassifyIdempotent ==
    /\ (cls.out # None /\ cls.error[1].kind = "PolynanceApiError")
          => cls.out[1] = cls.error[1]
    /\ cls.again # None => cls.again[1] = cls.out[1]

\* an error classified under one method name and context has been
\* classified again under another method name and another context
C10_Witness ==
    /\ cls.pc = "twice"
    /\ cls.error[1].kind = "PolynanceApiError"
    /\ cls.error[1].code = NOT_FOUND
    /\ cls.error[1].methodName # Some(cls.methodName)
    /\ cls.error[1].context # cls.context
    /\ cls.again = cls.error

IsSuffix(a, b) == Len(a) <= Len(b) /\ SubSeq(b, Len(b) - Len(a) + 1, Len(b)) = a

\* the timeout condition of a transport error: the abort code, or the word
\* "timeout" in its message in any letter case
TimeoutCondition(e) ==
    \/ e.code = "ECONNABORTED"
    \/ \E k \in 0..(Len(e.message) - Len(StrTimeout)) :
          \A j \in 1..Len(StrTimeout) :
              LowerChar(e.message[k + j]) = StrTimeout[j]

\* the message of a thrown value that is not a transport error
ThrownMessage(e) == IF e.kind = "Error" THEN e.message ELSE e.text

\* C11: for an error that is not yet a PolynanceApiError the rules apply in
\* priority order: timeout condition (even with a response) gives
\* TIMEOUT_ERROR; else a response is mapped by its status; else a request
\* without response gives NETWORK_ERROR; else API_REQUEST_FAILED; a
\* non-transport error gives INTERNAL_SDK_ERROR and the message ends with
\* the original message (before the method-name decoration every
\* PolynanceApiError message carries).
C11_PriorityOrder ==
    (cls.pc = "once" /\ cls.error[1].kind # "PolynanceApiError") =>
        LET e == cls.error[1]
            out == cls.out[1]
        IN  /\ out.kind = "PolynanceApiError"
            /\ IF e.kind = "AxiosError"
               THEN IF TimeoutCondition(e) THEN out.code = TIMEOUT_ERROR
                    ELSE IF e.response # None
                    THEN /\ out.code = StatusToCode(e.response[1].status)
                         /\ out.statusCode = Some(e.response[1].status)
                    ELSE IF e.request THEN out.code = NETWORK_ERROR
                    ELSE out.code = API_REQUEST_FAILED
               ELSE /\ out.code = INTERNAL_SDK_ERROR
                    /\ IsSuffix(ThrownMessage(e)
                                  \o <<" (Method: ", cls.methodName, ")">>,
                                out.message)

\* an error with the word "Timeout" in its message and a 404 response was
\* classified as a timeout
C11_Witness ==
    /\ cls.pc = "once"
    /\ cls.error[1].kind = "AxiosError"
    /\ cls.error[1].code # "ECONNABORTED"
    /\ cls.error[1].message = <<"T","i","m","e","o","u","t">>
    /\ cls.error[1].response # None
    /\ cls.error[1].response[1].status = 404
    /\ cls.out[1].code = TIMEOUT_ERROR

\* C12: for a transport error with a response and no timeout condition the
\* code depends on the status alone: 400, 401, 403, 404 and 429 have their
\* own codes, every status in 500..599 gives SERVER_ERROR, every other
\* status gives API_REQUEST_FAILED.
C12_StatusTable ==
    (/\ cls.pc = "once"
     /\ cls.error[1].kind = "AxiosError"
     /\ cls.error[1].response # None
     /\ ~TimeoutCondition(cls.error[1])) =>
        LET st == cls.error[1].response[1].status
        IN  cls.out[1].code =
              IF st = 400 THEN INVALID_PARAMETER
              ELSE IF st = 401 THEN UNAUTHORIZED
              ELSE IF st = 403 THEN FORBIDDEN
              ELSE IF st = 404 THEN NOT_FOUND
              ELSE IF st = 429 THEN RATE_LIMIT_EXCEEDED
              ELSE IF st \in 500..599 THEN SERVER_ERROR
              ELSE API_REQUEST_FAILED

\* buildOrder has handed an order to createOrder
Signing == build.nSign > 0

\* C13 as stated: whenever the intent sets size, price and usdcFlowAbs the
\* order handed to createOrder has exactly the explicit size and price.
C13_AsStated ==
    (/\ Signing
     /\ build.params[1].size # Undefined
     /\ build.params[1].price # Undefined
     /\ build.params[1].usdcFlowAbs # Undefined) =>
        /\ build.uo[1].size = build.params[1].size
        /\ build.uo[1].price = build.params[1].price

\* the position token an order was built on
TokenOf(uo) ==
    LET tokens == build.exchange[1].position_tokens
    IN  tokens[CHOOSE k \in DOMAIN tokens : tokens[k].token_id = uo.tokenID]

\* the reference prices the backend quotes, as numbers
ReferencePrice(text) ==
    IF text = <<"0",".","5">> THEN Num(50)
    ELSE IF text = <<"0",".","2","5">> THEN Num(25)
    ELSE IF text = <<"0">> THEN Num(0)
    ELSE IF text = <<"1">> THEN Num(100)
    ELSE NaN

C15_NoDivisionByBadPrice ==
    (Signing /\ build.params[1].size = Undefined) =>
        /\ build.uo[1].price.t = "num" /\ build.uo[1].price.v > 0
        /\ build.uo[1].size.t = "num" /\ build.uo[1].size.v >= 0

\* buildOrder ended because its resolver call gave no exchange
ResolutionFailed ==
    build.pc = "done" /\ build.nResolve > 0 /\ build.exchange = None

\* C16: when resolution fails inside buildOrder, buildOrder throws a
\* PolynanceApiError with code NOT_FOUND or API_REQUEST_FAILED whose context
\* carries the params, and createOrder is not called.
C16_ResolutionFailure ==
    ResolutionFailed =>
        /\ build.result.kind = "throw"
        /\ build.result.error[1].kind = "PolynanceApiError"
        /\ build.result.error[1].code \in {NOT_FOUND, API_REQUEST_FAILED}
        /\ <<"params", build.params[1]>> \in build.result.error[1].context
        /\ build.nSign = 0

\* the names of two position tokens are equal but for letter case
SameName(a, b) == ToLowerCase(a) = ToLowerCase(b)

\* buildOrder ended on an exchange that has no token of the name asked for
TokenMissing ==
    /\ build.pc = "done"
    /\ build.exchange # None
    /\ \A k \in DOMAIN build.exchange[1].position_tokens :
          ~SameName(build.exchange[1].position_tokens[k].name,
                    build.params[1].positionIdOrName)

\* C17: the order is built on a token whose name equals positionIdOrName
\* but for letter case; when the exchange has none, buildOrder fails with
\* code INVALID_PARAMETER and createOrder is not called.
C17_TokenMatching ==
    /\ Signing =>
          SameName(TokenOf(build.uo[1]).name, build.params[1].positionIdOrName)
    /\ TokenMissing =>
          /\ build.result.kind = "throw"
          /\ build.result.error[1].kind = "PolynanceApiError"
          /\ build.result.error[1].code = INVALID_PARAMETER
          /\ build.nSign = 0

\* the stages of a buildOrder attempt, in order
StageRank(pc) ==
    IF pc = "idle" THEN 0
    ELSE IF pc = "creds" THEN 1
    ELSE IF pc = "resolving" THEN 2
    ELSE IF pc = "signing" THEN 3
    ELSE 4

\* C18: a buildOrder attempt is one forward pass: an unsupported provider
\* fails before any resolver or createOrder call; the resolver is invoked
\* at most once and createOrder at most once, the latter only from the
\* resolving stage with credentials, an exchange and a priced order in
\* hand; a failure ends the attempt, after which nothing more is called.
C18_SinglePass ==
    [][/\ build'.nResolve <= 1 /\ build'.nRequests <= 1 /\ build'.nSign <= 1
       /\ (build'.params # None
             /\ build'.params[1].provider # "polymarket") =>
              /\ build'.pc = "done" /\ build'.result.kind = "throw"
              /\ build'.nResolve = 0 /\ build'.nRequests = 0
              /\ build'.nSign = 0
       /\ build'.nResolve > build.nResolve =>
              build.pc \in {"idle", "creds"} /\ build'.pc = "resolving"
       /\ build'.nSign > build.nSign =>
              /\ build.pc = "resolving" /\ build'.pc = "signing"
              /\ creds
              /\ build'.nResolve = 1
              /\ build'.exchange # None /\ build'.uo # None
       /\ build.pc # "done" => StageRank(build'.pc) >= StageRank(build.pc)
       /\ build.pc = "done" => build' \in {build, IdleBuild}
       /\ build'.result.kind # "none" => build'.pc = "done"
       /\ (build'.result.kind = "throw" /\ build.pc # "done") =>
              /\ build'.nResolve = build.nResolve
              /\ build'.nRequests = build.nRequests
              /\ build'.nSign = build.nSign]_vars

\* an attempt went through every stage and returned a signed order
C18_Witness ==
    /\ build.pc = "done"
    /\ build.result.kind = "return"
    /\ build.nResolve = 1 /\ build.nRequests = 1 /\ build.nSign = 1

\* the backend answered a slug request with nothing: an empty list, or 404
\* (as the status of an answer, or of the response a rejection carries)
AnsweredNothing(response) ==
    \/ response.kind = "ok"
          /\ (response.status = 404 \/ Len(response.data) = 0)
    \/ /\ response.kind = "fail"
       /\ response.error.kind = "AxiosError"
       /\ response.error.response # None
       /\ response.error.response[1].status = 404
       /\ ~TimeoutCondition(response.error)

\* C19: getExchangeBySlug fails with a PolynanceApiError of code NOT_FOUND
\* when the backend returns an empty list or answers 404, and it never
\* returns an empty list.
C19_SlugNotFound ==
    (res.pc = "done" /\ res.op = "getExchangeBySlug") =>
        /\ res.result.kind = "return" => Len(res.result.value) > 0
        /\ (res.response # None /\ AnsweredNothing(res.response[1])) =>
              /\ res.result.kind = "throw"
              /\ res.result.error[1].kind = "PolynanceApiError"
              /\ res.result.error[1].code = NOT_FOUND

\* the backend answered 200 with an empty list and the call threw
\* NOT_FOUND
C19_Witness ==
    /\ res.pc = "done" /\ res.op = "getExchangeBySlug"
    /\ res.response # None
    /\ res.response[1].kind = "ok"
    /\ res.response[1].status = 200
    /\ res.response[1].data = <<>>
    /\ res.result.kind = "throw"
    /\ res.result.error[1].code = NOT_FOUND

HasHyphen(text) == \E k \in DOMAIN text : text[k] = "-"

\* C20: buildOrder resolves a market identifier by slug iff it contains a
\* hyphen and by id otherwise; of the exchanges a slug resolves to, the
\* first is the one the order is built on.
C20_SlugOrId ==
    /\ build.resolver # "none" =>
          IF HasHyphen(build.params[1].marketIdOrSlug)
          THEN build.resolver = "getExchangeBySlug"
          ELSE build.resolver = "getExchange"
    /\ (build.resolver = "getExchangeBySlug" /\ build.exchange # None) =>
          build.exchange[1] = build.response[1].data[1]
    /\ (build.resolver = "getExchangeBySlug" /\ Signing) =>
          \E k \in DOMAIN build.response[1].data[1].position_tokens :
              build.response[1].data[1].position_tokens[k].token_id
                  = build.uo[1].tokenID

\* a slug resolved to two exchanges that both have the token, and the order
\* was built on the token of the first
C20_Witness ==
    /\ Signing
    /\ build.resolver = "getExchangeBySlug"
    /\ Len(build.response[1].data) = 2
    /\ build.response[1].data[1].id = "e2"
    /\ build.response[1].data[2].id = "e1"
    /\ build.uo[1].tokenID = "t3"

\* what executeOrder was called with, while the call record still holds it
ArgsOf(i) == calls[i].args[1]

\* a signer is available from the wallet argument or the instance wallet
SignerAvailable(i) == ArgsOf(i).wallet \/ wallet # "none"

\* a chain provider is available from the rpcProvider argument or the
\* instance wallet
ProviderAvailable(i) == ArgsOf(i).rpcProvider \/ WalletHasProvider

\* the invocation made no chain call and no backend call
NoNetworkCall(i) ==
    /\ calls[i].reads = 0
    /\ calls[i].txs = <<>>
    /\ calls[i].nPost = 0
    /\ calls[i].nFetch = 0
    /\ calls[i].nPropose = 0

\* C21: executeOrder goes on to the allowance step whenever a signer and a
\* chain provider are available from the arguments or the instance; when
\* they are not it fails at once, returning null without any chain or
\* backend call.
C21_ConfigCheck ==
    \A i \in Calls :
        calls[i].args # None =>
            IF SignerAvailable(i) /\ ProviderAvailable(i)
            THEN calls[i].pc = "reads" /\ calls[i].fail = "none"
            ELSE /\ calls[i].pc = "done"
                 /\ calls[i].fail = "config"
                 /\ calls[i].result = NullResult
                 /\ NoNetworkCall(i)

\* a call with a wallet argument on an instance whose wallet has no
\* provider failed at the configuration check for want of an rpcProvider
C21_Witness ==
    /\ calls[1].args # None
    /\ wallet = "Wallet"
    /\ ArgsOf(1).wallet
    /\ ~ArgsOf(1).rpcProvider
    /\ calls[1].fail = "config"
    /\ calls[1].result = NullResult

\* postOrder of invocation i has just resolved with a response that has no
\* orderID: the invocation ends at once, and not in its catch block
SubmittedWithoutId(i) ==
    /\ calls[i].pc = "posting"
    /\ calls'[i].pc = "done"
    /\ calls'[i].fail = "none"

C23_NoRetry ==
    /\ \A i \in Calls :
          /\ calls[i].nPost <= 1
          /\ calls[i].fail = "post" =>
                calls[i].pc = "done" /\ calls[i].nPost = 1
    /\ res.nRequests <= 1
    /\ (res.response # None /\ res.response[1].kind = "fail") =>
          /\ res.pc = "done"
          /\ res.nRequests = 1
          /\ res.result.kind = "throw"

\* postOrder was rejected after its one call, and a resolver request was
\* rejected after its one attempt
C23_Witness ==
    /\ calls[1].fail = "post"
    /\ calls[1].nPost = 1
    /\ res.response # None
    /\ res.response[1].kind = "fail"
    /\ res.nRequests = 1

\* call record c is that of an invocation that has returned the snapshot
\* of an order whose status is not "matched"
ObservedUnmatched(c) ==
    /\ c.pc = "done"
    /\ c.result.kind = "order"
    /\ ToLowerCase(c.result.status[1]) # StrMatched

\* C24: with executeOrder invocations interleaved at their awaits, every
\* step extends the registry by exactly the ids of the invocations that
\* observe a non-matched status in it, behind all earlier entries, and by
\* nothing else; so every finished invocation that observed a non-matched
\* status finds its order listed, whatever the others did meanwhile.
C24_ConcurrentAppends ==
    [][LET now == {i \in Calls : /\ calls[i].pc = "fetching"
                                 /\ ObservedUnmatched(calls'[i])}
       IN  /\ Len(pendingOrderIds')
                 = Len(pendingOrderIds) + Cardinality(now)
           /\ IsPrefix(pendingOrderIds, pendingOrderIds')
           /\ \A i \in now :
                 pendingOrderIds'[Len(pendingOrderIds')]
                     = calls'[i].result.id[1]
           /\ \A i \in Calls :
                 ObservedUnmatched(calls'[i]) =>
                     calls'[i].result.id[1] \in Range(pendingOrderIds')]_vars

\* both invocations observed a non-matched status: the second listed its
\* order first, and the first listed its own behind it
C24_Witness ==
    /\ ObservedUnmatched(calls[1]) /\ ObservedUnmatched(calls[2])
    /\ calls[1].result.id = Some("o1")
    /\ calls[2].result.id = Some("o2")
    /\ pendingOrderIds = <<"o2", "o1">>

\* the context of the error an operation threw; empty if it threw none or
\* threw something that has no context
ThrownContext(result) ==
    IF result.kind = "throw" /\ result.error[1].kind = "PolynanceApiError"
    THEN result.error[1].context
    ELSE {}

\* a context entry holds the identifiers it carries only in masked form:
\* the value is the same whatever non-empty identifier the call was given
Redacted(pair) ==
    IF pair[1] \in {"slug", "exchangeId"} THEN pair[2] = Mask(pair[2])
    ELSE IF pair[1] = "params"
    THEN pair[2].marketIdOrSlug = Mask(pair[2].marketIdOrSlug)
    ELSE TRUE

\* C25: the context of every PolynanceApiError holds market ids and slugs
\* only masked, so that failing calls that differ only in a non-empty
\* identifier carry the same context; for buildOrder as for getExchange and
\* getExchangeBySlug.
C25_ContextRedacted ==
    /\ \A pair \in ThrownContext(build.result) : Redacted(pair)
    /\ \A pair \in ThrownContext(res.result) : Redacted(pair)

\* the corrective transaction of the j-th check is among txs
Sent(txs, j) == \E k \in DOMAIN txs : txs[k] = Checks[j]

\* a transaction that grants: an unlimited approve, or an approval for all
Grants(tx) ==
    \/ tx.method = "approve" /\ tx.arg = "MaxUint256"
    \/ tx.method = "setApprovalForAll" /\ tx.arg = "true"

\* C26: approveAllowanceBalance sends approve(spender, MaxUint256) only for
\* an allowance it read as zero and setApprovalForAll(spender, true) only
\* for a flag it read as false, and when it returns it has done so for every
\* such allowance and flag; it sends no other amount and never a false
\* flag.
C26_GrantOnlyWhenMissing ==
    \A i \in Calls :
        /\ \A k \in DOMAIN calls[i].txs : Grants(calls[i].txs[k])
        /\ calls[i].facts # None =>
              \A j \in 1..4 :
                  /\ Sent(calls[i].txs, j) =>
                        Insufficient(calls[i].facts[1], j)
                  /\ (calls[i].allowance = "returned"
                        /\ Insufficient(calls[i].facts[1], j)) =>
                        Sent(calls[i].txs, j)

\* one allowance was zero and one flag false: exactly their two
\* transactions were sent before postOrder
C26_Witness ==
    /\ calls[1].pc = "posting"
    /\ calls[1].facts # None
    /\ calls[1].facts[1].perm = <<0, 1, TRUE, FALSE>>
    /\ calls[1].txs = <<Checks[1], Checks[4]>>

\* C27: an executeOrder invocation that returns null has left the registry
\* as it was before the call: the registry changes only in the step in
\* which the invocation returns a fetched snapshot, so no step of an
\* invocation that ends in null touches it. When postOrder gave an order id
\* and the status fetch then failed, that id is neither returned nor
\* listed by the call.
C27_NullLeavesRegistry ==
    [][/\ pendingOrderIds' # pendingOrderIds =>
             calls[1].pc = "fetching" /\ calls'[1].result.kind = "order"
       /\ (calls[1].pc # "done" /\ calls'[1].result.kind = "null") =>
             /\ pendingOrderIds' = pendingOrderIds
             /\ calls'[1].result.id = None
             /\ calls'[1].result.status = None
             /\ calls'[1].result.raw = None]_vars

\* postOrder gave order o1, the status fetch failed, null was returned, and
\* the registry still holds only the id an earlier call listed
C27_Witness ==
    /\ calls[1].pc = "done"
    /\ calls[1].fail = "fetch"
    /\ calls[1].oid = Some("o1")
    /\ calls[1].result = NullResult
    /\ pendingOrderIds = <<"o2">>

\* size is amount / price as JavaScript computes it, to the hundredth, for
\* a positive amount: infinite at price 0, NaN at a price that is no number
IsQuotient(size, amount, price) ==
    IF price.t # "num" THEN size = NaN
    ELSE IF price.v = 0 THEN size = Infinity
    ELSE LET p == IF price.v > 0 THEN price.v ELSE -price.v
             q == IF price.v > 0 THEN size.v ELSE -size.v
         IN  /\ size.t = "num"
             /\ q * p <= 100 * amount.v
             /\ 100 * amount.v < (q + 1) * p

\* C28: an explicit price of 0 counts as no price (the order takes the
\* matched token's reference price), an explicit size of 0 counts as no
\* size (the order takes usdcFlowAbs / price); every other explicit price
\* or size reaches createOrder unchanged.
C28_ZeroIsAbsent ==
    Signing =>
        LET params == build.params[1]
            uo == build.uo[1]
        IN  /\ params.price = Num(0) =>
                  uo.price = ReferencePrice(TokenOf(uo).price)
            /\ params.size = Num(0) =>
                  IsQuotient(uo.size, params.usdcFlowAbs, uo.price)
            /\ (params.price.t = "num" /\ params.price.v # 0) =>
                  uo.price = params.price
            /\ (params.size.t = "num" /\ params.size.v # 0) =>
                  uo.size = params.size

\* price 0 and size 0 were given for a token priced "0.25" and an amount
\* of 50: the order has price 0.25 and size 200
C28_Witness ==
    /\ Signing
    /\ build.params[1].price = Num(0)
    /\ build.params[1].size = Num(0)
    /\ build.params[1].usdcFlowAbs = Num(5000)
    /\ TokenOf(build.uo[1]).price = <<"0",".","2","5">>
    /\ build.uo[1].price = Num(25)
    /\ build.uo[1].size = Num(20000)

\* C29: the allowance step runs against the instance wallet whenever that
\* wallet has a provider, whether or not an rpcProvider was passed, and
\* against the rpcProvider argument only when it has none; the wallet
\* argument is never what the chain is reached through, so a call that is
\* given a wallet but runs on an instance without wallet and without
\* rpcProvider returns null and makes no chain or backend call.
C29_ProviderChoice ==
    \A i \in Calls :
        /\ calls[i].provider \in {"none", "instanceWallet", "rpcProvider"}
        /\ calls[i].provider = "instanceWallet" => WalletHasProvider
        /\ calls[i].provider = "rpcProvider" => ~WalletHasProvider
        /\ calls[i].args # None =>
              /\ WalletHasProvider =>
                    calls[i].provider = "instanceWallet"
              /\ calls[i].provider = "rpcProvider" => ArgsOf(i).rpcProvider
              /\ (wallet = "none" /\ ArgsOf(i).wallet
                     /\ ~ArgsOf(i).rpcProvider) =>
                    /\ calls[i].pc = "done"
                    /\ calls[i].provider = "none"
                    /\ calls[i].result = NullResult
                    /\ NoNetworkCall(i)

\* an rpcProvider was passed to a call on an instance whose wallet has a
\* provider, and the reads were issued through the instance wallet
C29_Witness ==
    /\ calls[1].pc = "reads"
    /\ calls[1].args # None
    /\ ArgsOf(1).rpcProvider
    /\ wallet = "WalletWithProvider"
    /\ calls[1].provider = "instanceWallet"

\* the data of a message event is a trade record: text that parses as a
\* JSON object with numeric price, volumeBase and timestamp
ValidTrade(data) ==
    /\ data.t = "string"
    /\ JsonParse(data.v).kind = "return"
    /\ JsonParse(data.v).value.t = "object"
    /\ \A name \in {"price", "volumeBase", "timestamp"} :
          \E f \in JsonParse(data.v).value.v :
              f[1] = name /\ f[2].t = "number"

\* how often a handler of the given kind is called when it is due once
Once(handler) == IF handler = "none" THEN 0 ELSE 1

====
